---- MODULE Spec2Model ----
(***************************************************************************)
(* DevOps-OS scaffolding scripts: the CI generators (GitHub Actions,       *)
(* original and improved Jenkins), the Kubernetes manifest generator's     *)
(* placeholder substitution, the container-definition writer configure.py  *)
(* and the unified devopsos CLI.                                           *)
(*                                                                         *)
(* Representation.  A Python dict of flags is a function whose domain is   *)
(* the set of keys present in the dict; dict.get(k, False) is Get.  A      *)
(* comma-separated option value is the sequence of its elements.  A step   *)
(* of a generated document is a record: its name, the action it uses, the  *)
(* artifact name it is given and the lines of its shell script.  Where the  *)
(* code iterates over the languages dict, the order of its keys is kept     *)
(* beside the function: in the order field of the settings file and of the  *)
(* configs dictionary.                                                      *)
(***************************************************************************)
EXTENDS Integers, Sequences, FiniteSets, TLC

VARIABLES
    env,        \* the environment variables
    settings,   \* the settings file .devcontainer/devcontainer.env.json
    cicd_settings, \* the settings file cicd/devcontainer.env.json
    custom,     \* the custom-values file
    template,   \* the text of the Kubernetes template file
    devcontainer, \* the container definition devcontainer.json
    edits,      \* the number of hand edits made so far
    run,        \* what the last command did; Idle between commands
    wizard,     \* where the init wizard is: idle, or waiting at its last prompt
    helper,     \* where generate-cicd.py is: idle, or between its two children
    cicd_scripts \* the generator scripts the directory cicd holds

vars == <<env, settings, cicd_settings, custom, template, devcontainer, edits, run, wizard,
          helper, cicd_scripts>>

(***************************************************************************)
(* Bounds of the model.                                                    *)
(***************************************************************************)
\* number of edits made to the environment / settings file / custom-values file
MaxEdits == 1
\* number of options given on one command line
MaxFlags == 2

(***************************************************************************)
(* Dictionaries.                                                           *)
(***************************************************************************)
EmptyMap == <<>>

\* dict.get(k, False)
Get(m, k) == IF k \in DOMAIN m THEN m[k] ELSE FALSE

\* dict.get(k, d)
GetOr(m, k, d) == IF k \in DOMAIN m THEN m[k] ELSE d

\* all dictionaries with the keys D, the value of key n drawn from Vals[n]
RECURSIVE MapsOver(_, _)
MapsOver(D, Vals) ==
    IF D = {} THEN {EmptyMap}
    ELSE LET n == CHOOSE k \in D : TRUE
         IN  {(n :> v) @@ m : v \in Vals[n], m \in MapsOver(D \ {n}, Vals)}

\* all dictionaries with at most k of the keys of Vals
PartialMaps(Vals, k) ==
    UNION {MapsOver(D, Vals) : D \in {S \in SUBSET DOMAIN Vals : Cardinality(S) <= k}}

Langs == <<"python", "java", "javascript", "go">>
LangSet == {Langs[i] : i \in 1..Len(Langs)}
Methods == {"kubectl", "kustomize", "argocd", "flux"}
Categories == {"languages", "kubernetes", "cicd", "build_tools", "code_analysis", "devops_tools"}

\* sequences without repetition of at most n elements of S
RECURSIVE ListsOf(_, _)
ListsOf(S, n) ==
    IF n = 0 THEN {<<>>}
    ELSE ListsOf(S, n - 1) \cup
         {Append(l, x) : l \in {m \in ListsOf(S, n - 1) : Len(m) = n - 1},
                         x \in S}

InList(x, l) == \E i \in 1..Len(l) : l[i] = x

\* str.lower() on the values an environment variable is given in the model
Lower(s) == CASE s = "TRUE" -> "true"
              [] s = "Yes"  -> "yes"
              [] OTHER      -> s

\* os.environ.get(...).lower() in ("true", "1", "yes")
Truthy(s) == Lower(s) \in {"true", "1", "yes"}

(***************************************************************************)
(* Steps of a generated document.                                          *)
(***************************************************************************)
Step(n, u, a, r) == [name |-> n, uses |-> u, artifact |-> a, run |-> r]
RunStep(n, r) == Step(n, "", "", r)
UsesStep(n, u) == Step(n, u, "", <<>>)

RECURSIVE Flatten(_)
Flatten(ss) == IF ss = <<>> THEN <<>> ELSE Head(ss) \o Flatten(Tail(ss))

When(c, s) == IF c THEN s ELSE <<>>

(***************************************************************************)
(* Settings merge of the GitHub Actions generator                          *)
(* (github-actions-generator-improved.py).                                 *)
(***************************************************************************)
WORKFLOW_TYPES == {"build", "test", "deploy", "complete", "reusable"}

\* C12 mutant: a deep merge, the languages the file leaves out taken from
\* the --languages list
generate_language_config_deep_merge(languages, env_config) ==
    IF "languages" \in DOMAIN env_config
    THEN env_config["languages"] @@ [l \in LangSet |-> InList(l, languages)]
    ELSE [l \in LangSet |-> InList(l, languages)]

generate_language_config(languages, env_config) ==
    IF "languages" \in DOMAIN env_config
    THEN env_config["languages"]
    ELSE [l \in LangSet |-> InList(l, languages)]

generate_kubernetes_config(k8s_enabled, k8s_method, env_config) ==
    IF "kubernetes" \in DOMAIN env_config THEN env_config["kubernetes"]
    ELSE IF ~k8s_enabled
    THEN [k9s |-> FALSE, kustomize |-> FALSE, argocd_cli |-> FALSE, flux |-> FALSE]
    ELSE [k9s |-> TRUE, kustomize |-> k8s_method = "kustomize",
          argocd_cli |-> k8s_method = "argocd", flux |-> k8s_method = "flux",
          kind |-> FALSE, minikube |-> FALSE]

generate_cicd_config(env_config) ==
    IF "cicd" \in DOMAIN env_config THEN env_config["cicd"]
    ELSE [docker |-> TRUE, terraform |-> TRUE, kubectl |-> TRUE, helm |-> TRUE,
          github_actions |-> TRUE]

generate_build_tools_config(env_config) ==
    IF "build_tools" \in DOMAIN env_config THEN env_config["build_tools"]
    ELSE [gradle |-> TRUE, maven |-> TRUE, ant |-> FALSE, make |-> TRUE, cmake |-> FALSE]

\* C4 mutant: sonarqube is off by default
generate_code_analysis_config_no_sonar(env_config) ==
    IF "code_analysis" \in DOMAIN env_config THEN env_config["code_analysis"]
    ELSE [sonarqube |-> FALSE, checkstyle |-> TRUE, pmd |-> FALSE, eslint |-> TRUE,
          pylint |-> TRUE]

generate_code_analysis_config(env_config) ==
    IF "code_analysis" \in DOMAIN env_config THEN env_config["code_analysis"]
    ELSE [sonarqube |-> TRUE, checkstyle |-> TRUE, pmd |-> FALSE, eslint |-> TRUE,
          pylint |-> TRUE]

generate_devops_tools_config(env_config) ==
    IF "devops_tools" \in DOMAIN env_config THEN env_config["devops_tools"]
    ELSE [nexus |-> FALSE, prometheus |-> TRUE, grafana |-> TRUE, elk |-> TRUE,
          jenkins |-> FALSE]

\* the order of the keys of the languages dict: the file's when the mapping is
\* the file's, that of the dict literal otherwise
LanguageOrder(env_config, order) ==
    IF "languages" \in DOMAIN env_config THEN order ELSE Langs

\* C26 mutant: a language named in the --languages list is enabled whatever
\* the settings file says of it
GhaConfigs_list_over_file(args, env_config, order) ==
    LET fromFile == generate_language_config(args.languages, env_config) IN
    [order         |-> LanguageOrder(env_config, order),
     languages     |-> [l \in DOMAIN fromFile |->
                           fromFile[l] \/ InList(l, args.languages)],
     kubernetes    |-> generate_kubernetes_config(args.kubernetes, args.k8s_method, env_config),
     cicd          |-> generate_cicd_config(env_config),
     build_tools   |-> generate_build_tools_config(env_config),
     code_analysis |-> generate_code_analysis_config(env_config),
     devops_tools  |-> generate_devops_tools_config(env_config)]

\* the configs dictionary built in main()
GhaConfigs(args, env_config, order) ==
    [order         |-> LanguageOrder(env_config, order),
     languages     |-> generate_language_config(args.languages, env_config),
     kubernetes    |-> generate_kubernetes_config(args.kubernetes, args.k8s_method, env_config),
     cicd          |-> generate_cicd_config(env_config),
     build_tools   |-> generate_build_tools_config(env_config),
     code_analysis |-> generate_code_analysis_config(env_config),
     devops_tools  |-> generate_devops_tools_config(env_config)]

(***************************************************************************)
(* Composers of the GitHub Actions generator.                              *)
(***************************************************************************)
MatrixSuffix == "-${{ matrix.os }}-${{ matrix.arch }}"

\* a job as the skeleton declares it, with the matrix strategy applied
Job(id, needs, image, matrix, steps) ==
    [id |-> id, needs |-> needs, image |-> image,
     runs_on  |-> IF matrix THEN "${{ matrix.os }}" ELSE "ubuntu-latest",
     strategy |-> matrix,
     steps |-> steps]

Checkout == UsesStep("Checkout code", "actions/checkout@v3")

SetUp(what) ==
    RunStep("Set up " \o what \o " environment",
            <<"echo 'Setting up " \o what \o " environment for DevOps-OS'">>)

\* language-specific build steps; setup_py is the script of "Build Python package"
GhaBuildSteps(configs, setup_py) ==
    Flatten(<<
      When(Get(configs.languages, "python"), <<
        RunStep("Install Python dependencies",
                <<"if [ -f requirements.txt ]; then pip install -r requirements.txt; fi">>),
        RunStep("Build Python package", <<setup_py>>) >>),
      When(Get(configs.languages, "java"), <<
        RunStep("Set up Java environment", <<"echo 'Setting up Java environment'">>),
        RunStep("Build with Maven",
                <<"if [ -f pom.xml ]; then mvn -B package --file pom.xml; fi">>),
        RunStep("Build with Gradle",
                <<"if [ -f build.gradle ]; then ./gradlew build; fi">>) >>),
      When(Get(configs.languages, "javascript"), <<
        RunStep("Install Node.js dependencies",
                <<"if [ -f package.json ]; then npm ci; fi">>),
        RunStep("Build JavaScript/TypeScript",
                <<"if [ -f package.json ]; then npm run build --if-present; fi">>) >>),
      When(Get(configs.languages, "go"), <<
        RunStep("Build Go application",
                <<"if [ -f go.mod ]; then go build -v ./...; fi">>) >>)
    >>)

\* configs.get("code_analysis", {}).get(tool, False)
Analysis(configs, tool) ==
    Get(GetOr(configs, "code_analysis", EmptyMap), tool)

\* language-specific test steps, each language followed by its lint step
GhaTestSteps(configs) ==
    Flatten(<<
      When(Get(configs.languages, "python"), <<
        RunStep("Install Python dependencies",
                <<"if [ -f requirements.txt ]; then pip install -r requirements.txt pytest pytest-cov; fi">>),
        RunStep("Run Python tests",
                <<"if [ -d tests ]; then python -m pytest --cov=./ --cov-report=xml; fi">>) >>
        \o When(Analysis(configs, "pylint"), <<
        RunStep("Run Pylint",
                <<"if command -v pylint &> /dev/null; then pylint --disable=C0111 **/*.py; fi">>) >>)),
      When(Get(configs.languages, "java"), <<
        RunStep("Set up Java environment", <<"echo 'Setting up Java environment'">>),
        RunStep("Run Java tests with Maven",
                <<"if [ -f pom.xml ]; then mvn -B test --file pom.xml; fi">>),
        RunStep("Run Java tests with Gradle",
                <<"if [ -f build.gradle ]; then ./gradlew test; fi">>) >>
        \o When(Analysis(configs, "checkstyle"), <<
        RunStep("Run Checkstyle",
                <<"if [ -f pom.xml ]; then mvn checkstyle:checkstyle; fi">>) >>)),
      When(Get(configs.languages, "javascript"), <<
        RunStep("Install Node.js dependencies",
                <<"if [ -f package.json ]; then npm ci; fi">>),
        RunStep("Run JavaScript tests",
                <<"if [ -f package.json ]; then npm test; fi">>) >>
        \o When(Analysis(configs, "eslint"), <<
        RunStep("Run ESLint",
                <<"if [ -f package.json ] && grep -q eslint package.json; then npm run lint; fi">>) >>)),
      When(Get(configs.languages, "go"), <<
        RunStep("Run Go tests", <<"if [ -f go.mod ]; then go test -v ./...; fi">>) >>)
    >>)

\* C5 mutant: the matrix renames the upload step
UploadBuild_renamed(matrix) ==
    Step("Upload build artifacts" \o (IF matrix THEN " (matrix)" ELSE ""),
         "actions/upload-artifact@v3",
         "build-artifacts" \o (IF matrix THEN MatrixSuffix ELSE ""), <<>>)

UploadBuild(matrix) ==
    Step("Upload build artifacts", "actions/upload-artifact@v3",
         "build-artifacts" \o (IF matrix THEN MatrixSuffix ELSE ""), <<>>)

UploadTest(matrix) ==
    <<Step("Upload test results", "actions/upload-artifact@v3",
           "test-results" \o (IF matrix THEN MatrixSuffix ELSE ""), <<>>),
      UsesStep("Upload coverage reports", "codecov/codecov-action@v3")>>

\* the registry publish step; token is the name of the secret it logs in with
DockerPush(registry, token) ==
    RunStep("Build and Push Docker Image",
      <<"echo \"${{ secrets." \o token \o " }}\" | docker login " \o registry
            \o " -u ${{ github.actor }} --password-stdin",
        "docker build -t " \o registry
            \o "/${{ github.repository_owner }}/${{ github.event.repository.name }}:latest .",
        "docker push " \o registry
            \o "/${{ github.repository_owner }}/${{ github.event.repository.name }}:latest">>)

KubeconfigLines(secret) ==
    <<"mkdir -p $HOME/.kube",
      "echo \"${{ secrets." \o secret \o " }}\" > $HOME/.kube/config",
      "chmod 600 $HOME/.kube/config">>

\* C2 mutant: a kubectl apply precedes the deploy step of every method
GhaK8sSteps_with_kubectl(args) ==
    IF ~args.kubernetes THEN <<>>
    ELSE <<RunStep("Deploy to Kubernetes", <<"kubectl apply -f ./k8s/deployment.yaml">>)>>

\* "Add Kubernetes deployment steps if enabled": the if / elif chain on k8s_method
GhaK8sSteps(args) ==
    IF ~args.kubernetes THEN <<>>
    ELSE CASE args.k8s_method = "kubectl" ->
                <<RunStep("Deploy to Kubernetes",
                    KubeconfigLines("KUBECONFIG") \o
                    <<"kubectl apply -f ./k8s/deployment.yaml",
                      "kubectl apply -f ./k8s/service.yaml",
                      "kubectl rollout status deployment/my-app">>)>>
           [] args.k8s_method = "kustomize" ->
                <<RunStep("Deploy to Kubernetes with Kustomize",
                    KubeconfigLines("KUBECONFIG") \o
                    <<"kubectl apply -k ./k8s/overlays/${ENVIRONMENT}",
                      "kubectl rollout status deployment/my-app">>)>>
           [] args.k8s_method = "argocd" ->
                <<RunStep("Deploy with ArgoCD",
                    <<"argocd login $ARGOCD_SERVER --username $ARGOCD_USERNAME --password $ARGOCD_PASSWORD --insecure",
                      "argocd app sync my-application",
                      "argocd app wait my-application --health">>)>>
           [] args.k8s_method = "flux" ->
                <<RunStep("Deploy with Flux",
                    <<"flux reconcile source git flux-system",
                      "flux reconcile kustomization flux-system">>)>>
           [] OTHER -> <<>>

\* values.get('container_image', args.image)
GhaImage(args, values) == GetOr(values, "container_image", args.image)

\* json.dumps(configs["languages"]): the items in the order of the keys
LanguageItems(configs) ==
    [i \in 1..Len(configs.order) |-> <<configs.order[i], configs.languages[configs.order[i]]>>]

\* [b.strip() for b in args.branches.split(',')] on the values --branches is
\* given in the model
BranchList(s) ==
    CASE s = "main, develop" -> <<"main", "develop">>
      [] s = "main,develop"  -> <<"main", "develop">>
      [] OTHER               -> <<s>>

\* a workflow: its triggers, the branches of its push and pull_request
\* triggers, the inputs they declare with their defaults (the
\* default of the languages input is the JSON text of the mapping, kept here as
\* its items), the secrets and the jobs
Workflow(name, triggers, branches, inputs, secrets, jobs) ==
    [name |-> name, on |-> triggers, branches |-> branches, inputs |-> inputs,
     secrets |-> secrets, jobs |-> jobs]

\* C19 mutant: the SonarQube step is emitted only with a language enabled
generate_build_workflow_sonar_by_language(args, values, configs) ==
    Workflow(args.name \o " Build", {"push", "pull_request", "workflow_dispatch"},
             BranchList(args.branches),
             EmptyMap, {},
      <<Job("build", <<>>, GhaImage(args, values), args.matrix,
            <<Checkout, SetUp("build")>>
            \o GhaBuildSteps(configs, "if [ -f setup.py ]; then pip install -e .; fi")
            \o When(Analysis(configs, "sonarqube")
                    /\ \E l \in LangSet : Get(configs.languages, l),
                    <<RunStep("SonarQube Analysis", <<"echo 'Running SonarQube analysis'">>)>>)
            \o <<UploadBuild(args.matrix)>>)>>)

generate_build_workflow(args, values, configs) ==
    Workflow(args.name \o " Build", {"push", "pull_request", "workflow_dispatch"},
             BranchList(args.branches),
             EmptyMap, {},
      <<Job("build", <<>>, GhaImage(args, values), args.matrix,
            <<Checkout, SetUp("build")>>
            \o GhaBuildSteps(configs, "if [ -f setup.py ]; then pip install -e .; fi")
            \o When(Analysis(configs, "sonarqube"),
                    <<RunStep("SonarQube Analysis", <<"echo 'Running SonarQube analysis'">>)>>)
            \o <<UploadBuild(args.matrix)>>)>>)

generate_test_workflow(args, values, configs) ==
    Workflow(args.name \o " Test", {"push", "pull_request", "workflow_dispatch"},
             BranchList(args.branches),
             EmptyMap, {},
      <<Job("test", <<>>, GhaImage(args, values), args.matrix,
            <<Checkout, SetUp("test")>>
            \o GhaTestSteps(configs)
            \o UploadTest(args.matrix))>>)

\* the matrix strategy is not applied by generate_deploy_workflow
generate_deploy_workflow(args, values, configs) ==
    Workflow(args.name \o " Deploy", {"push", "workflow_dispatch"},
             BranchList(args.branches),
             [environment |-> "dev"], {},
      <<Job("deploy", <<>>, GhaImage(args, values), FALSE,
            <<Checkout, SetUp("deployment"), DockerPush(args.registry, "REGISTRY_TOKEN")>>
            \o GhaK8sSteps(args))>>)

CompletePy == "if [ -f setup.py ]; then pip install -e .; elif [ -f pyproject.toml ]; then pip install -e .; fi"

generate_complete_workflow(args, values, configs) ==
    Workflow(args.name \o " CI/CD", {"push", "pull_request", "workflow_dispatch"},
             BranchList(args.branches),
             [environment |-> "dev"], {},
      <<Job("build", <<>>, GhaImage(args, values), args.matrix,
            <<Checkout, SetUp("build")>>
            \o GhaBuildSteps(configs, CompletePy)
            \o <<UploadBuild(args.matrix)>>),
        Job("test", <<"build">>, GhaImage(args, values), args.matrix,
            <<Checkout, SetUp("test")>>
            \o GhaTestSteps(configs)
            \o UploadTest(args.matrix)),
        Job("deploy", <<"test">>, GhaImage(args, values), args.matrix,
            <<Checkout, SetUp("deployment"), DockerPush(args.registry, "REGISTRY_TOKEN")>>
            \o GhaK8sSteps(args))>>)

\* the single deploy step of the reusable workflow: a shell dispatch on the
\* k8s_method input, holding the commands of all four methods
ReusableK8sStep ==
    RunStep("Deploy to Kubernetes",
      KubeconfigLines("kubeconfig") \o
      <<"if [[ \"${{ steps.config.outputs.k8s_method }}\" == \"kubectl\" ]]; then",
        "  kubectl apply -f ./k8s/deployment.yaml",
        "  kubectl apply -f ./k8s/service.yaml",
        "  kubectl rollout status deployment/my-app",
        "elif [[ \"${{ steps.config.outputs.k8s_method }}\" == \"kustomize\" ]]; then",
        "  kubectl apply -k ./k8s/overlays/${{ steps.config.outputs.env }}",
        "  kubectl rollout status deployment/my-app",
        "elif [[ \"${{ steps.config.outputs.k8s_method }}\" == \"argocd\" ]]; then",
        "  argocd login $ARGOCD_SERVER --username $ARGOCD_USERNAME --password $ARGOCD_PASSWORD --insecure",
        "  argocd app sync my-application",
        "  argocd app wait my-application --health",
        "elif [[ \"${{ steps.config.outputs.k8s_method }}\" == \"flux\" ]]; then",
        "  flux reconcile source git flux-system",
        "  flux reconcile kustomization flux-system",
        "fi">>)

generate_reusable_workflow(args, values, configs) ==
    Workflow(args.name \o " Reusable Workflow", {"workflow_call"}, <<>>,
             [environment |-> "dev", languages |-> LanguageItems(configs),
              kubernetes_deploy |-> args.kubernetes, k8s_method |-> args.k8s_method],
             {"registry_token", "kubeconfig"},
      <<Job("build", <<>>, GhaImage(args, values), args.matrix,
            <<Checkout, SetUp("build")>>),
        Job("test", <<"build">>, GhaImage(args, values), args.matrix,
            <<Checkout, SetUp("test")>>),
        Job("deploy", <<"test">>, GhaImage(args, values), args.matrix,
            <<Checkout, SetUp("deployment"),
              RunStep("Parse input configurations",
                <<"echo \"languages=${{ inputs.languages }}\" >> $GITHUB_OUTPUT",
                  "echo \"k8s_deploy=${{ inputs.kubernetes_deploy }}\" >> $GITHUB_OUTPUT",
                  "echo \"k8s_method=${{ inputs.k8s_method }}\" >> $GITHUB_OUTPUT",
                  "echo \"env=${{ inputs.environment }}\" >> $GITHUB_OUTPUT">>),
              DockerPush(args.registry, "registry_token"),
              ReusableK8sStep>>)>>)

\* the result of a composition: a document, or the exit status of sys.exit
Doc(d) == [ok |-> TRUE, doc |-> d]
Fatal(status) == [ok |-> FALSE, status |-> status]

generate_workflow(args, values, configs) ==
    CASE args.type = "build"    -> Doc(generate_build_workflow(args, values, configs))
      [] args.type = "test"     -> Doc(generate_test_workflow(args, values, configs))
      [] args.type = "deploy"   -> Doc(generate_deploy_workflow(args, values, configs))
      [] args.type = "complete" -> Doc(generate_complete_workflow(args, values, configs))
      [] args.type = "reusable" \/ (args.type \notin {"build", "test", "deploy", "complete"}
                                    /\ args.reusable)
                                -> Doc(generate_reusable_workflow(args, values, configs))
      [] OTHER -> Fatal(1)

(***************************************************************************)
(* The improved Jenkins generator (cicd/jenkins-pipeline-generator-       *)
(* improved.py).  Its settings merge is the same code as the GitHub        *)
(* Actions generator's, except for the default of devops_tools.            *)
(***************************************************************************)
PIPELINE_TYPES == {"build", "test", "deploy", "complete", "parameterized"}

ji_generate_devops_tools_config(env_config) ==
    IF "devops_tools" \in DOMAIN env_config THEN env_config["devops_tools"]
    ELSE [nexus |-> FALSE, prometheus |-> TRUE, grafana |-> TRUE, elk |-> TRUE,
          jenkins |-> TRUE]

JiConfigs(args, env_config, order) ==
    [order         |-> LanguageOrder(env_config, order),
     languages     |-> generate_language_config(args.languages, env_config),
     kubernetes    |-> generate_kubernetes_config(args.kubernetes, args.k8s_method, env_config),
     cicd          |-> generate_cicd_config(env_config),
     build_tools   |-> generate_build_tools_config(env_config),
     code_analysis |-> generate_code_analysis_config(env_config),
     devops_tools  |-> ji_generate_devops_tools_config(env_config)]

\* str.upper() of a language key
Upper(l) ==
    CASE l = "python" -> "PYTHON" [] l = "java" -> "JAVA"
      [] l = "javascript" -> "JAVASCRIPT" [] l = "go" -> "GO"
      [] l = "node" -> "NODE" [] l = "ruby" -> "RUBY" [] l = "csharp" -> "CSHARP"
      [] l = "php" -> "PHP" [] l = "rust" -> "RUST" [] l = "typescript" -> "TYPESCRIPT"
      [] l = "kotlin" -> "KOTLIN" [] l = "c" -> "C" [] l = "cpp" -> "CPP"

\* C18 mutant: the entries are listed in the fixed order of the languages
LanguageEntries_fixed_order(configs) ==
    LET present == SelectSeq(Langs, LAMBDA l : InList(l, configs.order))
    IN  [i \in 1..Len(present) |->
            <<Upper(present[i]) \o "_ENABLED", configs.languages[present[i]]>>]

\* for lang, enabled in configs["languages"].items(): one entry per key, in
\* the order of the keys, holding the name and the default value
LanguageEntries(configs) ==
    [i \in 1..Len(configs.order) |->
        <<Upper(configs.order[i]) \o "_ENABLED", configs.languages[configs.order[i]]>>]

\* the parameters block: absent, or the language entries followed by the rest
generate_parameters_block(args, configs) ==
    IF ~args.parameters THEN [present |-> FALSE]
    ELSE [present   |-> TRUE,
          languages |-> LanguageEntries(configs),
          rest      |-> When(args.kubernetes,
                             <<<<"KUBERNETES_DEPLOY", "true">>,
                               <<"K8S_METHOD", args.k8s_method>>,
                               <<"ENVIRONMENT", "dev">> >>)
                        \o << <<"REGISTRY_URL", args.registry>>,
                              <<"IMAGE_NAME", "devops-os-app">>,
                              <<"IMAGE_TAG", "latest">> >>]

generate_environment_block(args, configs) ==
    [first     |-> << <<"WORKSPACE_DIR", "${WORKSPACE}">>,
                      <<"REGISTRY_URL", args.registry>>,
                      <<"IMAGE_NAME", "devops-os-app">>,
                      <<"IMAGE_TAG", "latest">> >>
                   \o When(args.kubernetes,
                           <<<<"KUBERNETES_DEPLOY", "true">>,
                             <<"K8S_METHOD", args.k8s_method>>,
                             <<"ENVIRONMENT", "dev">> >>),
     languages |-> LanguageEntries(configs)]

Stage(name, steps) == [name |-> name, steps |-> steps]

\* C3 mutant: the build stage holds the go block whatever the flag is
generate_build_stage_always_go(configs) ==
    Stage("Build",
      <<RunStep("checkout scm", <<>>),
        RunStep("sh", <<"if [ ${GO_ENABLED} = 'true' ] && [ -f go.mod ]; then",
                        "go build -v ./...">>),
        RunStep("archiveArtifacts", <<>>)>>)

generate_build_stage(configs) ==
    Stage("Build",
      <<RunStep("checkout scm", <<>>)>>
      \o When(Get(configs.languages, "python"),
           <<RunStep("sh", <<"if [ ${PYTHON_ENABLED} = 'true' ] && [ -f requirements.txt ]; then",
                             "pip install -r requirements.txt",
                             "if [ ${PYTHON_ENABLED} = 'true' ] && [ -f setup.py ]; then",
                             "pip install -e .">>)>>)
      \o When(Get(configs.languages, "java"),
           <<RunStep("sh", <<"if [ ${JAVA_ENABLED} = 'true' ] && [ -f pom.xml ]; then",
                             "mvn -B package --file pom.xml",
                             "if [ ${JAVA_ENABLED} = 'true' ] && [ -f build.gradle ]; then",
                             "./gradlew build">>)>>)
      \o When(Get(configs.languages, "javascript"),
           <<RunStep("sh", <<"if [ ${JAVASCRIPT_ENABLED} = 'true' ] && [ -f package.json ]; then",
                             "npm ci",
                             "npm run build --if-present">>)>>)
      \o When(Get(configs.languages, "go"),
           <<RunStep("sh", <<"if [ ${GO_ENABLED} = 'true' ] && [ -f go.mod ]; then",
                             "go build -v ./...">>)>>)
      \o <<RunStep("archiveArtifacts", <<>>)>>)

generate_test_stage(configs) ==
    Stage("Test",
      When(Get(configs.languages, "python"),
           <<RunStep("sh", <<"if [ ${PYTHON_ENABLED} = 'true' ] && [ -f requirements.txt ]; then",
                             "pip install -r requirements.txt pytest pytest-cov",
                             "if [ ${PYTHON_ENABLED} = 'true' ] && [ -d tests ]; then",
                             "python -m pytest --cov=./ --cov-report=xml">>)>>
           \o When(Analysis(configs, "pylint"),
           <<RunStep("sh", <<"if [ ${PYTHON_ENABLED} = 'true' ] && command -v pylint &> /dev/null; then",
                             "pylint --disable=C0111 **/*.py || true">>)>>))
      \o When(Get(configs.languages, "java"),
           <<RunStep("sh", <<"if [ ${JAVA_ENABLED} = 'true' ] && [ -f pom.xml ]; then",
                             "mvn -B test --file pom.xml",
                             "if [ ${JAVA_ENABLED} = 'true' ] && [ -f build.gradle ]; then",
                             "./gradlew test">>)>>
           \o When(Analysis(configs, "checkstyle"),
           <<RunStep("sh", <<"if [ ${JAVA_ENABLED} = 'true' ] && [ -f pom.xml ]; then",
                             "mvn checkstyle:checkstyle || true">>)>>))
      \o When(Get(configs.languages, "javascript"),
           <<RunStep("sh", <<"if [ ${JAVASCRIPT_ENABLED} = 'true' ] && [ -f package.json ]; then",
                             "npm test || true">>)>>
           \o When(Analysis(configs, "eslint"),
           <<RunStep("sh", <<"if [ ${JAVASCRIPT_ENABLED} = 'true' ] && [ -f package.json ] && grep -q eslint package.json; then",
                             "npm run lint || true">>)>>))
      \o When(Get(configs.languages, "go"),
           <<RunStep("sh", <<"if [ ${GO_ENABLED} = 'true' ] && [ -f go.mod ]; then",
                             "go test -v ./...">>)>>)
      \o <<RunStep("junit", <<>>)>>)

\* the script block emitted when kubernetes is enabled: a Groovy if / else-if
\* chain on env.K8S_METHOD holding the commands of all four methods
JiK8sScript ==
    RunStep("script",
      <<"if (env.KUBERNETES_DEPLOY == 'true') {",
        "sh 'mkdir -p ~/.kube && cp $KUBECONFIG ~/.kube/config && chmod 600 ~/.kube/config'",
        "if (env.K8S_METHOD == 'kubectl') {",
        "kubectl apply -f ./k8s/deployment.yaml",
        "kubectl apply -f ./k8s/service.yaml",
        "kubectl rollout status deployment/my-app",
        "} else if (env.K8S_METHOD == 'kustomize') {",
        "kubectl apply -k ./k8s/overlays/${ENVIRONMENT}",
        "kubectl rollout status deployment/my-app",
        "} else if (env.K8S_METHOD == 'argocd') {",
        "argocd login $ARGOCD_SERVER --username $ARGOCD_USERNAME --password $ARGOCD_PASSWORD --insecure",
        "argocd app sync my-application",
        "argocd app wait my-application --health",
        "} else if (env.K8S_METHOD == 'flux') {",
        "flux reconcile source git flux-system",
        "flux reconcile kustomization flux-system">>)

\* C21 mutant: the Kubernetes script is left out for a method it has no branch for
generate_deploy_stage_known_methods_only(args, configs) ==
    Stage("Deploy",
      <<RunStep("script", <<"def imageName = \"${REGISTRY_URL}/${IMAGE_NAME}:${IMAGE_TAG}\"",
                            "docker.withRegistry('https://' + REGISTRY_URL, 'registry-credentials') {",
                            "def customImage = docker.build(imageName)",
                            "customImage.push()">>)>>
      \o When(args.kubernetes /\ args.k8s_method \in Methods, <<JiK8sScript>>)
      \o <<RunStep("sh", <<"echo \"Deployment completed successfully\"">>)>>)

generate_deploy_stage(args, configs) ==
    Stage("Deploy",
      <<RunStep("script", <<"def imageName = \"${REGISTRY_URL}/${IMAGE_NAME}:${IMAGE_TAG}\"",
                            "docker.withRegistry('https://' + REGISTRY_URL, 'registry-credentials') {",
                            "def customImage = docker.build(imageName)",
                            "customImage.push()">>)>>
      \o When(args.kubernetes, <<JiK8sScript>>)
      \o <<RunStep("sh", <<"echo \"Deployment completed successfully\"">>)>>)

Pipeline(image, parameters, environment, defaults, stages) ==
    [image |-> image, parameters |-> parameters, environment |-> environment,
     defaults |-> defaults, stages |-> stages]

\* C16 mutant: the build stage is emitted for every type
generate_pipeline_build_always(args, configs) ==
    Pipeline(args.image,
             generate_parameters_block(args, configs),
             generate_environment_block(args, configs),
             EmptyMap,
             <<generate_build_stage(configs)>>
             \o When(args.type \in {"test", "complete", "parameterized"},
                  <<generate_test_stage(configs)>>)
             \o When(args.type \in {"deploy", "complete", "parameterized"},
                  <<generate_deploy_stage(args, configs)>>))

\* the custom values are not a parameter of generate_pipeline
generate_pipeline(args, configs) ==
    Pipeline(args.image,
             generate_parameters_block(args, configs),
             generate_environment_block(args, configs),
             EmptyMap,
             When(args.type \in {"build", "complete", "parameterized"},
                  <<generate_build_stage(configs)>>)
             \o When(args.type \in {"test", "complete", "parameterized"},
                  <<generate_test_stage(configs)>>)
             \o When(args.type \in {"deploy", "complete", "parameterized"},
                  <<generate_deploy_stage(args, configs)>>))

(***************************************************************************)
(* The original Jenkins generator (.devcontainer/jenkins-pipeline-         *)
(* generator.py).  Every pipeline holds the blocks of all languages, each  *)
(* inside a Groovy test of config.languages at run time.                   *)
(***************************************************************************)
JO_PIPELINE_TYPES == {"build", "test", "deploy", "complete"}

\* Python's  sub in s  for a language name and one element of the list
SubstringOf(sub, tok) ==
    \/ sub = tok
    \/ sub = "java" /\ tok = "javascript"

\* "python" in args.languages, args.languages being the option string itself
InString(sub, languages) == \E i \in 1..Len(languages) : SubstringOf(sub, languages[i])

\* generate_languages_parameters splits the string first
generate_languages_parameters(args) ==
    When(InList("python", args.languages), <<"PYTHON_ENABLED">>)
    \o When(InList("java", args.languages), <<"JAVA_ENABLED">>)
    \o When(InList("javascript", args.languages), <<"JS_ENABLED">>)
    \o When(InList("go", args.languages), <<"GO_ENABLED">>)

generate_kubernetes_parameters(args) ==
    IF ~args.kubernetes THEN <<>>
    ELSE <<"KUBERNETES_DEPLOY">>
         \o When(args.k8s_method = "kustomize", <<"KUSTOMIZE_ENABLED">>)
         \o When(args.k8s_method = "argocd", <<"ARGOCD_ENABLED">>)
         \o When(args.k8s_method = "flux", <<"FLUX_ENABLED">>)
         \o <<"ENVIRONMENT">>

JoLanguageDefaults(args) == [l \in LangSet |-> InString(l, args.languages)]

JoKubernetesDefaults(args) ==
    [deploy |-> args.kubernetes, kustomize |-> args.k8s_method = "kustomize",
     argocd |-> args.k8s_method = "argocd", flux |-> args.k8s_method = "flux"]

JavaWrapper(gradle, maven) ==
    <<"if [ -f \"gradlew\" ]; then", "./gradlew " \o gradle,
      "elif [ -f \"mvnw\" ]; then", "./mvnw " \o maven>>

JoSetupStage(python) ==
    Stage("Setup Dependencies",
      <<RunStep("if (config.languages.python)", <<python>>),
        RunStep("if (config.languages.java)", JavaWrapper("dependencies", "dependency:resolve")),
        RunStep("if (config.languages.javascript)", <<"npm install">>)>>)

JoBuildStage(python, javascript) ==
    Stage("Build",
      <<RunStep("if (config.languages.python)", <<python>>),
        RunStep("if (config.languages.java)", JavaWrapper("build", "package")),
        RunStep("if (config.languages.javascript)", <<javascript>>),
        RunStep("if (config.languages.go)", <<"go build ./...">>)>>)

JoTestStage ==
    Stage("Test",
      <<RunStep("if (config.languages.python)", <<"pytest --cov=./ --cov-report=xml">>),
        RunStep("if (config.languages.java)", JavaWrapper("test", "test")),
        RunStep("if (config.languages.javascript)", <<"npm test">>),
        RunStep("if (config.languages.go)", <<"go test ./...">>)>>)

JoPublishStage ==
    Stage("Publish Results",
      <<RunStep("junit", <<>>),
        RunStep("if (config.languages.python)", <<"cobertura coberturaReportFile: '**/coverage.xml'">>),
        RunStep("if (config.languages.javascript)", <<"publishCoverage adapters: [istanbulCoberturaAdapter('**/coverage/cobertura-coverage.xml')]">>)>>)

\* C20 mutant: the stage publishes to docker.io whatever --registry says
JoDockerStage_fixed_registry(args) ==
    Stage("Build and Push Docker Image",
      <<RunStep("sh", <<"echo \"$REGISTRY_TOKEN\" | docker login docker.io -u $USERNAME --password-stdin",
                        "docker build -t docker.io/$ORGANIZATION/$REPOSITORY:latest .",
                        "docker push docker.io/$ORGANIZATION/$REPOSITORY:latest">>)>>)

JoDockerStage(args) ==
    Stage("Build and Push Docker Image",
      <<RunStep("sh", <<"echo \"$REGISTRY_TOKEN\" | docker login " \o args.registry \o " -u $USERNAME --password-stdin",
                        "docker build -t " \o args.registry \o "/$ORGANIZATION/$REPOSITORY:latest .",
                        "docker push " \o args.registry \o "/$ORGANIZATION/$REPOSITORY:latest">>)>>)

\* k8s_stage: the if / elif chain on args.k8s_method
JoK8sStage(args) ==
    IF ~args.kubernetes THEN <<>>
    ELSE CASE args.k8s_method = "kubectl" ->
                <<Stage("Deploy to Kubernetes",
                    <<RunStep("sh", <<"kubectl apply -f ./k8s/deployment.yaml",
                                      "kubectl apply -f ./k8s/service.yaml",
                                      "kubectl rollout status deployment/my-app">>)>>)>>
           [] args.k8s_method = "kustomize" ->
                <<Stage("Deploy to Kubernetes with Kustomize",
                    <<RunStep("sh", <<"kubectl apply -k ./k8s/overlays/${params.ENVIRONMENT}",
                                      "kubectl rollout status deployment/my-app">>)>>)>>
           [] args.k8s_method = "argocd" ->
                <<Stage("Deploy with ArgoCD",
                    <<RunStep("sh", <<"argocd login $ARGOCD_SERVER --username $ARGOCD_USERNAME --password $ARGOCD_PASSWORD --insecure",
                                      "argocd app sync my-application",
                                      "argocd app wait my-application --health">>)>>)>>
           [] args.k8s_method = "flux" ->
                <<Stage("Deploy with Flux",
                    <<RunStep("sh", <<"flux reconcile source git flux-system",
                                      "flux reconcile kustomization flux-system">>)>>)>>
           [] OTHER -> <<>>

NoBlock == [present |-> FALSE]

JoImage(values) == GetOr(values, "container_image", "ghcr.io/yourorg/devops-os:latest")

JoParameters(args, names) ==
    IF args.parameters THEN [present |-> TRUE, names |-> names] ELSE NoBlock

generate_build_pipeline(args, values) ==
    Pipeline(JoImage(values),
             JoParameters(args, generate_languages_parameters(args)),
             NoBlock,
             [languages |-> JoLanguageDefaults(args)],
             <<Stage("Configure Environment", <<RunStep("script", <<"writeJSON file: 'devops-config.json', json: config">>)>>),
               JoSetupStage("pip install -r requirements.txt"),
               JoBuildStage("python -m pip install build && python -m build", "npm run build")>>)

generate_test_pipeline(args, values) ==
    Pipeline(JoImage(values),
             JoParameters(args, generate_languages_parameters(args)),
             NoBlock,
             [languages |-> JoLanguageDefaults(args)],
             <<Stage("Configure Environment", <<RunStep("script", <<"writeJSON file: 'devops-config.json', json: config">>)>>),
               JoSetupStage("pip install -r requirements.txt pytest pytest-cov"),
               JoTestStage,
               JoPublishStage>>)

generate_deploy_pipeline(args, values) ==
    Pipeline(JoImage(values),
             JoParameters(args, generate_languages_parameters(args)
                                \o generate_kubernetes_parameters(args)),
             NoBlock,
             [languages |-> JoLanguageDefaults(args), kubernetes |-> JoKubernetesDefaults(args)],
             <<Stage("Configure Environment", <<RunStep("script", <<"writeJSON file: 'devops-config.json', json: config">>)>>),
               JoBuildStage("pip install -r requirements.txt && python -m build",
                            "npm install && npm run build"),
               JoDockerStage(args)>>
             \o JoK8sStage(args))

generate_complete_pipeline(args, values) ==
    Pipeline(JoImage(values),
             JoParameters(args, generate_languages_parameters(args)
                                \o generate_kubernetes_parameters(args)),
             NoBlock,
             [languages |-> JoLanguageDefaults(args), kubernetes |-> JoKubernetesDefaults(args)],
             <<Stage("Configure Environment", <<RunStep("script", <<"writeJSON file: 'devops-config.json', json: config">>)>>),
               JoSetupStage("pip install -r requirements.txt pytest pytest-cov"),
               JoBuildStage("python -m pip install build && python -m build", "npm run build"),
               JoTestStage,
               JoPublishStage,
               JoDockerStage(args)>>
             \o JoK8sStage(args))

jo_generate_pipeline(args, values) ==
    CASE args.type = "build"    -> Doc(generate_build_pipeline(args, values))
      [] args.type = "test"     -> Doc(generate_test_pipeline(args, values))
      [] args.type = "deploy"   -> Doc(generate_deploy_pipeline(args, values))
      [] args.type = "complete" -> Doc(generate_complete_pipeline(args, values))
      [] OTHER -> Fatal(1)

(***************************************************************************)
(* Files and command lines.                                                *)
(***************************************************************************)
\* a JSON file on disk: absent, unparsable, or holding a dictionary
\* order: the keys of data["languages"] in the order the file lists them
NoFile == [state |-> "absent", data |-> EmptyMap, order |-> <<>>]
Malformed == [state |-> "malformed", data |-> EmptyMap, order |-> <<>>]
OrderedFile(d, o) == [state |-> "ok", data |-> d, order |-> o]
File(d) == OrderedFile(d, <<>>)

\* load_custom_values / load_env_config: {} when there is no path or no file,
\* json.load raises on unparsable content
Load(path, file) ==
    IF path = "None" \/ file.state = "absent"
    THEN [ok |-> TRUE, data |-> EmptyMap, order |-> <<>>]
    ELSE IF file.state = "malformed" THEN [ok |-> FALSE, data |-> EmptyMap, order |-> <<>>]
    ELSE [ok |-> TRUE, data |-> file.data, order |-> file.order]

\* an option with an environment-variable fallback
Opt(flags, e, flag, var, default) ==
    IF flag \in DOMAIN flags THEN flags[flag] ELSE GetOr(e, var, default)

\* a store_true option whose default is read from the environment
BoolOpt(flags, e, flag, var) ==
    IF flag \in DOMAIN flags THEN TRUE ELSE Truthy(GetOr(e, var, "false"))

\* argparse checks choices only for values given on the command line
ChoiceOk(flags, flag, choices) == flag \in DOMAIN flags => flags[flag] \in choices

DefaultLanguages == <<"python", "javascript">>

gha_parse_arguments(flags, e) ==
    IF ~(ChoiceOk(flags, "type", WORKFLOW_TYPES) /\ ChoiceOk(flags, "k8s_method", Methods))
    THEN [ok |-> FALSE, status |-> 2]
    ELSE LET type == Opt(flags, e, "type", "DEVOPS_OS_GHA_TYPE", "complete") IN
      [ok |-> TRUE, args |->
        [name          |-> Opt(flags, e, "name", "DEVOPS_OS_GHA_NAME", "DevOps-OS"),
         type          |-> type,
         languages     |-> Opt(flags, e, "languages", "DEVOPS_OS_GHA_LANGUAGES", DefaultLanguages),
         kubernetes    |-> BoolOpt(flags, e, "kubernetes", "DEVOPS_OS_GHA_KUBERNETES"),
         registry      |-> Opt(flags, e, "registry", "DEVOPS_OS_GHA_REGISTRY", "ghcr.io"),
         k8s_method    |-> Opt(flags, e, "k8s_method", "DEVOPS_OS_GHA_K8S_METHOD", "kubectl"),
         custom_values |-> Opt(flags, e, "custom_values", "DEVOPS_OS_GHA_CUSTOM_VALUES", "None"),
         output        |-> Opt(flags, e, "output", "DEVOPS_OS_GHA_OUTPUT", "./.github/workflows"),
         image         |-> Opt(flags, e, "image", "DEVOPS_OS_GHA_IMAGE", "ghcr.io/yourorg/devops-os:latest"),
         branches      |-> Opt(flags, e, "branches", "DEVOPS_OS_GHA_BRANCHES", "main"),
         matrix        |-> BoolOpt(flags, e, "matrix", "DEVOPS_OS_GHA_MATRIX"),
         reusable      |-> type = "reusable"
                           \/ BoolOpt(flags, e, "reusable", "DEVOPS_OS_GHA_REUSABLE")]]

ji_parse_arguments(flags, e) ==
    IF ~(/\ ChoiceOk(flags, "type", PIPELINE_TYPES) /\ ChoiceOk(flags, "k8s_method", Methods)
         /\ ChoiceOk(flags, "scm", {"git", "svn", "none"}))
    THEN [ok |-> FALSE, status |-> 2]
    ELSE LET type == Opt(flags, e, "type", "DEVOPS_OS_JENKINS_TYPE", "complete") IN
      [ok |-> TRUE, args |->
        [name          |-> Opt(flags, e, "name", "DEVOPS_OS_JENKINS_NAME", "DevOps-OS"),
         type          |-> type,
         languages     |-> Opt(flags, e, "languages", "DEVOPS_OS_JENKINS_LANGUAGES", DefaultLanguages),
         kubernetes    |-> BoolOpt(flags, e, "kubernetes", "DEVOPS_OS_JENKINS_KUBERNETES"),
         registry      |-> Opt(flags, e, "registry", "DEVOPS_OS_JENKINS_REGISTRY", "docker.io"),
         k8s_method    |-> Opt(flags, e, "k8s_method", "DEVOPS_OS_JENKINS_K8S_METHOD", "kubectl"),
         custom_values |-> Opt(flags, e, "custom_values", "DEVOPS_OS_JENKINS_CUSTOM_VALUES", "None"),
         output        |-> Opt(flags, e, "output", "DEVOPS_OS_JENKINS_OUTPUT", "./Jenkinsfile"),
         image         |-> Opt(flags, e, "image", "DEVOPS_OS_JENKINS_IMAGE", "docker.io/yourorg/devops-os:latest"),
         scm           |-> Opt(flags, e, "scm", "DEVOPS_OS_JENKINS_SCM", "git"),
         parameters    |-> type = "parameterized"
                           \/ BoolOpt(flags, e, "parameters", "DEVOPS_OS_JENKINS_PARAMETERS")]]

\* the original generator reads no environment variable; --name and --type
\* are required
jo_parse_arguments(flags) ==
    IF ~("name" \in DOMAIN flags /\ "type" \in DOMAIN flags
         /\ ChoiceOk(flags, "type", JO_PIPELINE_TYPES)
         /\ ChoiceOk(flags, "k8s_method", Methods))
    THEN [ok |-> FALSE, status |-> 2]
    ELSE
      [ok |-> TRUE, args |->
        [name          |-> flags["name"],
         type          |-> flags["type"],
         languages     |-> GetOr(flags, "languages", DefaultLanguages),
         kubernetes    |-> "kubernetes" \in DOMAIN flags,
         registry      |-> GetOr(flags, "registry", "ghcr.io"),
         k8s_method    |-> GetOr(flags, "k8s_method", "kubectl"),
         output        |-> GetOr(flags, "output", "./Jenkinsfile"),
         custom_values |-> GetOr(flags, "custom_values", "None"),
         parameters    |-> "parameters" \in DOMAIN flags]]

(***************************************************************************)
(* One run of a generator: main().                                         *)
(***************************************************************************)
\* what a run leaves behind: the exit status and the document it wrote, if any
Outcome(prog, flags, args, configs, values, written, doc, status) ==
    [prog |-> prog, flags |-> flags, args |-> args, configs |-> configs,
     values |-> values, written |-> written, doc |-> doc, status |-> status]

Failed(prog, flags, args, status) ==
    Outcome(prog, flags, args, EmptyMap, EmptyMap, FALSE, EmptyMap, status)

\* C11 mutant: the matrix strategy is applied only when --matrix itself is on
\* the command line, not when the parameter comes from the environment
gha_main_matrix_from_flags(flags, e, settingsFile, customFile) ==
    LET parsed == gha_parse_arguments(flags, e) IN
    IF ~parsed.ok THEN Failed("gha", flags, EmptyMap, parsed.status) ELSE
    LET args == parsed.args
        custom_values == Load(args.custom_values, customFile)
        env_config == Load("devcontainer.env.json", settingsFile)
    IN
    IF ~custom_values.ok \/ ~env_config.ok THEN Failed("gha", flags, args, 1) ELSE
    LET configs == GhaConfigs(args, env_config.data, env_config.order)
        workflow_content ==
            generate_workflow([args EXCEPT !.matrix = "matrix" \in DOMAIN flags],
                              custom_values.data, configs)
    IN
    IF ~workflow_content.ok THEN Failed("gha", flags, args, workflow_content.status)
    ELSE Outcome("gha", flags, args, configs, custom_values.data, TRUE,
                 workflow_content.doc, 0)

gha_main(flags, e, settingsFile, customFile) ==
    LET parsed == gha_parse_arguments(flags, e) IN
    IF ~parsed.ok THEN Failed("gha", flags, EmptyMap, parsed.status) ELSE
    LET args == parsed.args
        custom_values == Load(args.custom_values, customFile)
        env_config == Load("devcontainer.env.json", settingsFile)
    IN
    IF ~custom_values.ok \/ ~env_config.ok THEN Failed("gha", flags, args, 1) ELSE
    LET configs == GhaConfigs(args, env_config.data, env_config.order)
        workflow_content == generate_workflow(args, custom_values.data, configs)
    IN
    IF ~workflow_content.ok THEN Failed("gha", flags, args, workflow_content.status)
    ELSE Outcome("gha", flags, args, configs, custom_values.data, TRUE,
                 workflow_content.doc, 0)

ji_main(flags, e, settingsFile, customFile) ==
    LET parsed == ji_parse_arguments(flags, e) IN
    IF ~parsed.ok THEN Failed("ji", flags, EmptyMap, parsed.status) ELSE
    LET args == parsed.args
        custom_values == Load(args.custom_values, customFile)
        env_config == Load("devcontainer.env.json", settingsFile)
    IN
    IF ~custom_values.ok \/ ~env_config.ok THEN Failed("ji", flags, args, 1) ELSE
    LET configs == JiConfigs(args, env_config.data, env_config.order)
    IN  Outcome("ji", flags, args, configs, custom_values.data, TRUE,
                generate_pipeline(args, configs), 0)

jo_main(flags, customFile) ==
    LET parsed == jo_parse_arguments(flags) IN
    IF ~parsed.ok THEN Failed("jo", flags, EmptyMap, parsed.status) ELSE
    LET args == parsed.args
        custom_values == Load(args.custom_values, customFile)
    IN
    IF ~custom_values.ok THEN Failed("jo", flags, args, 1) ELSE
    LET pipeline_content == jo_generate_pipeline(args, custom_values.data) IN
    IF ~pipeline_content.ok THEN Failed("jo", flags, args, pipeline_content.status)
    ELSE Outcome("jo", flags, args, EmptyMap, custom_values.data, TRUE,
                 pipeline_content.doc, 0)

(***************************************************************************)
(* Inputs of the model.                                                    *)
(***************************************************************************)
\* the values given to --languages: no language, one language, the default,
\* two languages in the reverse of their usual order
LangLists ==
    {<<>>, <<"python">>, <<"java">>, <<"go">>, DefaultLanguages, <<"go", "python">>}

GhaFlagVals ==
    [type |-> WORKFLOW_TYPES \cup {"bogus"}, languages |-> LangLists,
     kubernetes |-> {TRUE}, k8s_method |-> Methods \cup {"helm"},
     registry |-> {"registry.example.com"}, image |-> {"example/ci:1"},
     custom_values |-> {"custom.json"}, matrix |-> {TRUE}, reusable |-> {TRUE}]

JiFlagVals ==
    [type |-> PIPELINE_TYPES \cup {"bogus"}, languages |-> LangLists,
     kubernetes |-> {TRUE}, k8s_method |-> Methods \cup {"helm"},
     registry |-> {"registry.example.com"}, image |-> {"example/ci:1"},
     custom_values |-> {"custom.json"}, parameters |-> {TRUE}]

JoFlagVals ==
    [name |-> {"DevOps-OS"},
     type |-> JO_PIPELINE_TYPES \cup {"bogus"}, languages |-> LangLists,
     kubernetes |-> {TRUE}, k8s_method |-> Methods \cup {"helm"},
     registry |-> {"registry.example.com"},
     custom_values |-> {"custom.json"}, parameters |-> {TRUE}]

GhaCommandLines == PartialMaps(GhaFlagVals, MaxFlags)
JiCommandLines == PartialMaps(JiFlagVals, MaxFlags)
\* --name and --type are required and are not counted; the command lines
\* that leave one of them out give nothing else
JoRequired == {"name", "type"}

JoCommandLines ==
    {f \in PartialMaps(JoFlagVals, MaxFlags + 2) : JoRequired \subseteq DOMAIN f}
    \cup {f \in PartialMaps(JoFlagVals, 1) : DOMAIN f \subseteq JoRequired}

\* the values the environment variables are set to
EnvVals ==
    [DEVOPS_OS_GHA_TYPE |-> {"deploy", "bogus"},
     DEVOPS_OS_GHA_KUBERNETES |-> {"Yes"},
     DEVOPS_OS_GHA_K8S_METHOD |-> {"helm"},
     DEVOPS_OS_GHA_MATRIX |-> {"1"},
     DEVOPS_OS_GHA_REUSABLE |-> {"true"},
     DEVOPS_OS_JENKINS_TYPE |-> {"deploy", "bogus"},
     DEVOPS_OS_JENKINS_KUBERNETES |-> {"Yes"},
     DEVOPS_OS_JENKINS_K8S_METHOD |-> {"helm"},
     DEVOPS_OS_JENKINS_PARAMETERS |-> {"1"}]

\* the keys a hand edit of the settings file sets
SettingsKeys ==
    [languages |-> {"python", "go"}, code_analysis |-> {"sonarqube", "pylint"},
     devops_tools |-> {"jenkins"}]

\* the entries a hand edit of the custom-values file sets
CustomVals ==
    [container_image |-> {"custom/image:2"},
     languages |-> {[python |-> FALSE, go |-> TRUE]},
     code_analysis |-> {[sonarqube |-> FALSE]}]

Idle == [prog |-> "none"]

NoWizard == [pc |-> "idle"]

NoHelper == [pc |-> "idle"]

\* the directories a settings file is read from: .devcontainer, where
\* configure.py and the wizard write it and where the GitHub Actions generator
\* looks for it, and cicd, where the improved Jenkins generator looks for it
\* and where the helper points both of its children
SettingsPlaces == {".devcontainer", "cicd"}

SettingsAt(place) == IF place = "cicd" THEN cicd_settings ELSE settings

PutSettings(place, file) ==
    IF place = "cicd" THEN cicd_settings' = file /\ UNCHANGED settings
    ELSE settings' = file /\ UNCHANGED cicd_settings

(***************************************************************************)
(* The state machine: hand edits of the environment between runs, and the  *)
(* runs of the generators.                                                 *)
(***************************************************************************)
Init ==
    /\ env = EmptyMap
    /\ settings = NoFile
    /\ cicd_settings = NoFile
    /\ custom = NoFile
    /\ template = <<>>
    /\ devcontainer = NoFile
    /\ edits = 0
    /\ run = Idle
    /\ wizard = NoWizard
    /\ helper = NoHelper
    \* cicd as it is in the tree: the helper and the improved Jenkins generator;
    \* the GitHub Actions generator is in .devcontainer
    /\ cicd_scripts = {"generate-cicd.py", "jenkins-pipeline-generator-improved.py"}

CanEdit == run.prog = "none" /\ edits < MaxEdits

SetEnv ==
    /\ CanEdit
    /\ \E var \in DOMAIN EnvVals : \E val \in EnvVals[var] :
          env' = (var :> val) @@ env
    /\ edits' = edits + 1
    /\ UNCHANGED <<settings, custom, template, run, devcontainer, cicd_settings,
                   wizard, helper, cicd_scripts>>

\* the user sets one flag of one category in a devcontainer.env.json
EditSettings ==
    /\ CanEdit
    /\ \E place \in SettingsPlaces :
          LET file == SettingsAt(place) IN
          /\ file.state # "malformed"
          /\ \E cat \in DOMAIN SettingsKeys : \E key \in SettingsKeys[cat] : \E b \in BOOLEAN :
                PutSettings(place,
                    OrderedFile((cat :> ((key :> b) @@ GetOr(file.data, cat, EmptyMap)))
                                  @@ file.data,
                                IF cat = "languages" /\ ~InList(key, file.order)
                                THEN Append(file.order, key) ELSE file.order))
    /\ edits' = edits + 1
    /\ UNCHANGED <<env, custom, template, run, devcontainer, wizard, helper, cicd_scripts>>

\* the user leaves a category with no flag at all
ClearCategory ==
    /\ CanEdit
    /\ \E place \in SettingsPlaces :
          LET file == SettingsAt(place) IN
          /\ file.state # "malformed"
          /\ \E cat \in {"languages", "code_analysis"} :
                PutSettings(place,
                    OrderedFile((cat :> EmptyMap) @@ file.data,
                                IF cat = "languages" THEN <<>> ELSE file.order))
    /\ edits' = edits + 1
    /\ UNCHANGED <<env, custom, template, run, devcontainer, wizard, helper, cicd_scripts>>

\* the orders in which a hand-written languages mapping lists its keys
LanguageOrders == {<<"python", "go">>, <<"go", "python">>}

\* the user writes the languages mapping of a settings file, every language
\* of it enabled
WriteLanguages ==
    /\ CanEdit
    /\ \E place \in SettingsPlaces :
          LET file == SettingsAt(place) IN
          /\ file.state # "malformed"
          /\ \E order \in LanguageOrders :
                PutSettings(place,
                    OrderedFile(("languages" :> [l \in {order[i] : i \in 1..Len(order)} |-> TRUE])
                                  @@ file.data, order))
    /\ edits' = edits + 1
    /\ UNCHANGED <<env, custom, template, run, devcontainer, wizard, helper, cicd_scripts>>

\* an edit that leaves a file that is not JSON
BreakFile ==
    /\ CanEdit
    /\ \/ \E place \in SettingsPlaces : PutSettings(place, Malformed) /\ UNCHANGED custom
       \/ custom' = Malformed /\ UNCHANGED <<settings, cicd_settings>>
    /\ edits' = edits + 1
    /\ UNCHANGED <<env, template, run, devcontainer, wizard, helper, cicd_scripts>>

EditCustom ==
    /\ CanEdit
    /\ custom.state # "malformed"
    /\ \E key \in DOMAIN CustomVals : \E val \in CustomVals[key] :
          custom' = File((key :> val) @@ custom.data)
    /\ edits' = edits + 1
    /\ UNCHANGED <<env, settings, template, run, devcontainer, cicd_settings, wizard, helper, cicd_scripts>>

\* the variables of the environment a generator reads: those of its prefix
OwnVars(prefix) ==
    {prefix \o n : n \in {"TYPE", "KUBERNETES", "K8S_METHOD", "MATRIX", "REUSABLE",
                          "PARAMETERS"}}

\* each improved generator is run where the environment holds no variable of
\* the other and the settings file of the other was left alone: it reads
\* neither
RunGha ==
    /\ run.prog = "none"
    /\ DOMAIN env \subseteq OwnVars("DEVOPS_OS_GHA_") /\ cicd_settings = NoFile
    /\ \E flags \in GhaCommandLines : run' = gha_main(flags, env, settings, custom)
    /\ UNCHANGED <<env, settings, cicd_settings, custom, template, edits, devcontainer,
                   wizard, helper, cicd_scripts>>

RunJi ==
    /\ run.prog = "none"
    /\ DOMAIN env \subseteq OwnVars("DEVOPS_OS_JENKINS_") /\ settings = NoFile
    /\ \E flags \in JiCommandLines : run' = ji_main(flags, env, cicd_settings, custom)
    /\ UNCHANGED <<env, settings, cicd_settings, custom, template, edits, devcontainer,
                   wizard, helper, cicd_scripts>>

\* the original generator reads neither the environment nor a settings
\* file; it is run where the settings files are as they were at the start and
\* the environment holds at most the Kubernetes toggle of the improved
\* generator
RunJo ==
    /\ run.prog = "none"
    /\ DOMAIN env \subseteq {"DEVOPS_OS_JENKINS_KUBERNETES"}
    /\ settings = NoFile /\ cicd_settings = NoFile
    /\ \E flags \in JoCommandLines : run' = jo_main(flags, custom)
    /\ UNCHANGED <<env, settings, cicd_settings, custom, template, edits, devcontainer,
                   wizard, helper, cicd_scripts>>

\* the process has ended; the user goes on to the next command
NextCommand ==
    /\ run.prog # "none"
    /\ run' = Idle
    /\ UNCHANGED <<env, settings, custom, template, edits, devcontainer, cicd_settings,
                   wizard, helper, cicd_scripts>>

Next ==
    \/ SetEnv
    \/ EditSettings
    \/ ClearCategory
    \/ WriteLanguages
    \/ BreakFile
    \/ EditCustom
    \/ RunGha
    \/ RunJi
    \/ RunJo
    \/ NextCommand

Spec == Init /\ [][Next]_vars

(***************************************************************************)
(* Reading a generated document.                                           *)
(***************************************************************************)
IsCiRun == run.prog \in {"gha", "ji", "jo"}
Wrote == IsCiRun /\ run.written

\* the settings file the generator of the last run looked for: the one of its
\* own directory
SettingsRead == IF run.prog = "ji" THEN cicd_settings ELSE settings

\* the jobs of a workflow or the stages of a pipeline
UnitsOf(prog, doc) == IF prog = "gha" THEN doc.jobs ELSE doc.stages

\* all steps of a document, in document order
StepsOf(prog, doc) ==
    LET units == UnitsOf(prog, doc)
    IN  Flatten([i \in 1..Len(units) |-> units[i].steps])

Names(steps) == [i \in 1..Len(steps) |-> steps[i].name]

LinesOf(prog, doc) ==
    LET steps == StepsOf(prog, doc)
    IN  UNION {{steps[i].run[j] : j \in 1..Len(steps[i].run)} : i \in 1..Len(steps)}

\* the deploy commands of each Kubernetes method, as the generators write them
DeployCommands ==
    [kubectl   |-> {"kubectl apply -f ./k8s/deployment.yaml",
                    "  kubectl apply -f ./k8s/deployment.yaml"},
     kustomize |-> {"kubectl apply -k ./k8s/overlays/${ENVIRONMENT}",
                    "  kubectl apply -k ./k8s/overlays/${{ steps.config.outputs.env }}",
                    "kubectl apply -k ./k8s/overlays/${params.ENVIRONMENT}"},
     argocd    |-> {"argocd app sync my-application", "  argocd app sync my-application"},
     flux      |-> {"flux reconcile kustomization flux-system",
                    "  flux reconcile kustomization flux-system"}]

HasDeployBlock(prog, doc, m) == LinesOf(prog, doc) \cap DeployCommands[m] # {}

\* the names of the steps each language has in a workflow, and the Groovy test
\* that opens each language's block in an original Jenkins pipeline
LanguageStepNames ==
    [python     |-> {"Install Python dependencies", "Build Python package",
                     "Run Python tests", "Run Pylint", "if (config.languages.python)"},
     java       |-> {"Set up Java environment", "Build with Maven", "Build with Gradle",
                     "Run Java tests with Maven", "Run Java tests with Gradle",
                     "Run Checkstyle", "if (config.languages.java)"},
     javascript |-> {"Install Node.js dependencies", "Build JavaScript/TypeScript",
                     "Run JavaScript tests", "Run ESLint",
                     "if (config.languages.javascript)"},
     go         |-> {"Build Go application", "Run Go tests", "if (config.languages.go)"}]

\* the commands each language has in the sh blocks of an improved Jenkins pipeline
LanguageCommands ==
    [python     |-> {"pip install -r requirements.txt", "pip install -e .",
                     "pip install -r requirements.txt pytest pytest-cov",
                     "python -m pytest --cov=./ --cov-report=xml",
                     "pylint --disable=C0111 **/*.py || true"},
     java       |-> {"mvn -B package --file pom.xml", "./gradlew build",
                     "mvn -B test --file pom.xml", "./gradlew test",
                     "mvn checkstyle:checkstyle || true"},
     javascript |-> {"npm ci", "npm run build --if-present", "npm test || true",
                     "npm run lint || true"},
     go         |-> {"go build -v ./...", "go test -v ./..."}]

\* the document holds a build, test or lint step or block of language l
HasLanguageBlock(prog, doc, l) ==
    LET steps == StepsOf(prog, doc) IN
    \/ \E i \in 1..Len(steps) : steps[i].name \in LanguageStepNames[l]
    \/ \E i \in 1..Len(steps) : \E j \in 1..Len(steps[i].run) :
          steps[i].run[j] \in LanguageCommands[l]

\* the languages flag of the record a run composed from
LanguageEnabled(l) ==
    IF run.prog = "jo" THEN InList(l, run.args.languages)
    ELSE Get(run.configs.languages, l)

(***************************************************************************)
(* C1  Settings-merge priority.                                            *)
(***************************************************************************)
\* the category mappings the generator falls back to with no file at all
DefaultConfigs ==
    IF run.prog = "gha" THEN GhaConfigs(run.args, EmptyMap, <<>>)
    ELSE JiConfigs(run.args, EmptyMap, <<>>)

\* C1 as stated: in every run of the GitHub Actions and improved Jenkins
\* generators each category of the effective record is the custom-values
\* file's value if that file defines it, else the settings file's, else the
\* default.
C1_CustomOverSettingsOverDefault ==
    (Wrote /\ run.prog \in {"gha", "ji"}) =>
        \A cat \in Categories :
            run.configs[cat] =
                IF cat \in DOMAIN run.values THEN run.values[cat]
                ELSE IF cat \in DOMAIN SettingsRead.data THEN SettingsRead.data[cat]
                ELSE DefaultConfigs[cat]

(***************************************************************************)
(* C2  Kubernetes-method dispatch.                                         *)
(***************************************************************************)
OnlyMethod(m) ==
    \A other \in Methods \ {m} : ~HasDeployBlock(run.prog, run.doc, other)

\* C2 as stated: in every generated document of every generator and type,
\* with kubernetes=true and k8s_method=m, there is no deploy block of a
\* method other than m.
C2_ExclusiveEverywhere ==
    (Wrote /\ run.args.kubernetes /\ run.args.k8s_method \in Methods) =>
        OnlyMethod(run.args.k8s_method)

\* the documents composed by a static dispatch on k8s_method
StaticDispatch ==
    \/ run.prog = "gha" /\ run.args.type \in {"build", "test", "deploy", "complete"}
    \/ run.prog = "jo"

\* C2 amended: in the build, test, deploy and complete workflows and in the
\* original Jenkins pipelines there is no deploy block of a method other than
\* m; the reusable workflow and the improved Jenkins deploy stage hold the
\* commands of all four methods and select among them at run time.
C2_ExclusiveWhereStatic ==
    (Wrote /\ run.args.kubernetes /\ run.args.k8s_method \in Methods) =>
        IF StaticDispatch THEN OnlyMethod(run.args.k8s_method)
        ELSE (\E m \in Methods : HasDeployBlock(run.prog, run.doc, m)) =>
                \A m \in Methods : HasDeployBlock(run.prog, run.doc, m)

\* a deploy workflow composed for kustomize, holding the kustomize block
C2_Witness ==
    /\ Wrote /\ run.prog = "gha" /\ run.args.type = "deploy"
    /\ run.args.kubernetes /\ run.args.k8s_method = "kustomize"
    /\ HasDeployBlock("gha", run.doc, "kustomize")

(***************************************************************************)
(* C3  Disabled means absent.                                              *)
(***************************************************************************)
\* C3 as stated: no document of any generator holds a build, test or lint
\* block of a language whose flag is false or missing.
C3_DisabledAbsentEverywhere ==
    Wrote => \A l \in LangSet :
        ~LanguageEnabled(l) => ~HasLanguageBlock(run.prog, run.doc, l)

\* C3 amended: no document of the GitHub Actions generator or of the improved
\* Jenkins generator holds a block of a disabled language; every stage of the
\* original Jenkins generator holds the blocks of its languages whatever the
\* flags are, each inside a test made when the pipeline runs.
C3_DisabledAbsent ==
    (Wrote /\ run.prog \in {"gha", "ji"}) => \A l \in LangSet :
        ~LanguageEnabled(l) => ~HasLanguageBlock(run.prog, run.doc, l)

\* a complete workflow with python enabled and go disabled: python's steps
\* are there, go's are not
C3_Witness ==
    /\ Wrote /\ run.prog = "gha" /\ run.args.type = "complete"
    /\ LanguageEnabled("python") /\ ~LanguageEnabled("go")
    /\ HasLanguageBlock("gha", run.doc, "python")

(***************************************************************************)
(* C4  End-to-end build scenario.                                          *)
(***************************************************************************)
PythonOnly(languages) ==
    /\ Get(languages, "python")
    /\ \A l \in LangSet \ {"python"} : ~Get(languages, l)

\* languages = {python: true, others: false}, the other categories at their
\* defaults, type=build, kubernetes=false
C4_Scenario ==
    /\ Wrote /\ run.prog = "gha" /\ run.args.type = "build" /\ ~run.args.kubernetes
    /\ PythonOnly(run.configs.languages)
    /\ \A cat \in Categories \ {"languages"} : run.configs[cat] = DefaultConfigs[cat]

\* C4 as stated: the document has one job whose steps are exactly checkout,
\* install Python dependencies, build Python package, upload artifact.
C4_FourSteps ==
    C4_Scenario =>
        /\ Len(run.doc.jobs) = 1
        /\ Names(run.doc.jobs[1].steps) =
              <<"Checkout code", "Install Python dependencies", "Build Python package",
                "Upload build artifacts">>

\* C4 amended: the document has one job whose steps are exactly checkout,
\* set up build environment, install Python dependencies, build Python
\* package, SonarQube analysis (sonarqube is on by default), upload artifact;
\* there is no Kubernetes step and no step of another language.
C4_SixSteps ==
    C4_Scenario =>
        /\ Len(run.doc.jobs) = 1
        /\ Names(run.doc.jobs[1].steps) =
              <<"Checkout code", "Set up build environment",
                "Install Python dependencies", "Build Python package",
                "SonarQube Analysis", "Upload build artifacts">>
        /\ \A m \in Methods : ~HasDeployBlock("gha", run.doc, m)
        /\ \A l \in LangSet \ {"python"} : ~HasLanguageBlock("gha", run.doc, l)

C4_Witness == C4_Scenario /\ Len(run.doc.jobs[1].steps) = 6

(***************************************************************************)
(* C5  Matrix toggling.                                                    *)
(***************************************************************************)
\* the document the same invocation composes with the matrix flag flipped
MatrixTwin ==
    generate_workflow([run.args EXCEPT !.matrix = ~@], run.values, run.configs).doc

WithoutArtifact(steps) == [i \in 1..Len(steps) |-> [steps[i] EXCEPT !.artifact = ""]]

\* job b is job a but for the runner, the strategy and the artifact suffix
SameButRunner(a, b) ==
    /\ a.id = b.id /\ a.needs = b.needs /\ a.image = b.image
    /\ Names(a.steps) = Names(b.steps)
    /\ WithoutArtifact(a.steps) = WithoutArtifact(b.steps)
    /\ \A i \in 1..Len(a.steps) :
          \/ a.steps[i].artifact = b.steps[i].artifact
          \/ a.steps[i].artifact \o MatrixSuffix = b.steps[i].artifact
          \/ a.steps[i].artifact = b.steps[i].artifact \o MatrixSuffix

\* C5: for every record and workflow type, the documents composed with
\* matrix=false and matrix=true have job by job the same sequence of step
\* names, and differ only in runs-on / strategy and the artifact-name suffix.
C5_MatrixConfined ==
    (Wrote /\ run.prog = "gha") =>
        LET twin == MatrixTwin IN
        /\ twin.name = run.doc.name
        /\ twin.on = run.doc.on
        /\ twin.inputs = run.doc.inputs
        /\ twin.secrets = run.doc.secrets
        /\ Len(twin.jobs) = Len(run.doc.jobs)
        /\ \A j \in 1..Len(run.doc.jobs) : SameButRunner(run.doc.jobs[j], twin.jobs[j])

\* a complete workflow composed with the matrix on, differing from its twin
C5_Witness ==
    /\ Wrote /\ run.prog = "gha" /\ run.args.type = "complete" /\ run.args.matrix
    /\ LanguageEnabled("python")
    /\ run.doc.jobs[1].strategy /\ ~MatrixTwin.jobs[1].strategy
    /\ run.doc # MatrixTwin

(***************************************************************************)
(* C8  Unrecognized target type.                                           *)
(***************************************************************************)
KnownTypes ==
    [gha |-> WORKFLOW_TYPES, ji |-> PIPELINE_TYPES, jo |-> JO_PIPELINE_TYPES]

\* the type selector in effect: the option, else the environment variable
EffectiveType ==
    CASE run.prog = "gha" -> Opt(run.flags, env, "type", "DEVOPS_OS_GHA_TYPE", "complete")
      [] run.prog = "ji"  -> Opt(run.flags, env, "type", "DEVOPS_OS_JENKINS_TYPE", "complete")
      [] run.prog = "jo"  -> GetOr(run.flags, "type", "None")

\* C8: whenever the type selector in effect, from the command line or from
\* the environment, is not a known type of the generator, no document is
\* written and the exit status is not zero.
C8_UnknownTypeFatal ==
    (IsCiRun /\ EffectiveType \notin KnownTypes[run.prog]) =>
        ~run.written /\ run.status # 0

(***************************************************************************)
(* k8s-config-generator.py: placeholder substitution.                      *)
(*                                                                         *)
(* A text is a sequence of symbols: "$", "{", "}" and identifiers.  An     *)
(* identifier symbol stands for its characters, so that two identifier     *)
(* symbols side by side read as one longer identifier, as they do for      *)
(* string.Template.                                                        *)
(***************************************************************************)
DEPLOYMENT_METHODS == {"kubectl", "kustomize", "argocd", "flux"}

Identifiers ==
    {"APP_NAME", "ENVIRONMENT", "MISSING", "shop", "dev", "found"}

\* the identifier matched greedily from position i: [_a-z][_a-z0-9]*
RECURSIVE IdentifierAt(_, _)
IdentifierAt(text, i) ==
    IF i > Len(text) \/ text[i] \notin Identifiers THEN ""
    ELSE text[i] \o IdentifierAt(text, i + 1)

\* the number of symbols of that identifier
RECURSIVE IdentifierLen(_, _)
IdentifierLen(text, i) ==
    IF i > Len(text) \/ text[i] \notin Identifiers THEN 0
    ELSE 1 + IdentifierLen(text, i + 1)

\* Template.pattern at a "$" in position i: the alternatives in their order
Match(text, i) ==
    LET named  == IdentifierLen(text, i + 1)
        braced == IdentifierLen(text, i + 2)
    IN  IF i < Len(text) /\ text[i + 1] = "$"
        THEN [kind |-> "escaped", len |-> 2, name |-> ""]
        ELSE IF named > 0
        THEN [kind |-> "named", len |-> 1 + named, name |-> IdentifierAt(text, i + 1)]
        ELSE IF /\ i < Len(text) /\ text[i + 1] = "{"
                /\ braced > 0
                /\ i + 2 + braced <= Len(text) /\ text[i + 2 + braced] = "}"
        THEN [kind |-> "braced", len |-> 3 + braced, name |-> IdentifierAt(text, i + 2)]
        ELSE [kind |-> "invalid", len |-> 1, name |-> ""]

\* C6 mutant: a placeholder without a value is dropped (substitute's KeyError
\* swallowed) instead of being left as it is
convert_dropping_unknown(text, i, mapping) ==
    LET mo == Match(text, i) IN
    CASE mo.kind = "escaped" -> <<"$">>
      [] mo.kind \in {"named", "braced"} ->
            IF mo.name \in DOMAIN mapping THEN mapping[mo.name] ELSE <<>>
      [] OTHER -> SubSeq(text, i, i + mo.len - 1)

\* the convert callback of safe_substitute
convert(text, i, mapping) ==
    LET mo == Match(text, i) IN
    CASE mo.kind = "escaped" -> <<"$">>
      [] mo.kind \in {"named", "braced"} ->
            IF mo.name \in DOMAIN mapping THEN mapping[mo.name]
            ELSE SubSeq(text, i, i + mo.len - 1)
      [] OTHER -> SubSeq(text, i, i + mo.len - 1)

\* C7 mutant: only the first placeholder is substituted (re.sub with count=1)
RECURSIVE SubFirst(_, _, _)
SubFirst(text, i, mapping) ==
    IF i > Len(text) THEN <<>>
    ELSE IF text[i] # "$" THEN <<text[i]>> \o SubFirst(text, i + 1, mapping)
    ELSE convert(text, i, mapping)
            \o SubSeq(text, i + Match(text, i).len, Len(text))

safe_substitute_first_only(text, mapping) == SubFirst(text, 1, mapping)

\* re.sub over the pattern: text outside the matches is copied
RECURSIVE SubFrom(_, _, _)
SubFrom(text, i, mapping) ==
    IF i > Len(text) THEN <<>>
    ELSE IF text[i] # "$" THEN <<text[i]>> \o SubFrom(text, i + 1, mapping)
    ELSE convert(text, i, mapping) \o SubFrom(text, i + Match(text, i).len, mapping)

\* Template(template_content).safe_substitute(values)
safe_substitute(text, mapping) == SubFrom(text, 1, mapping)

\* the values of copy_template_files, updated with the custom values
TemplateValues(args, custom_values) ==
    LET values ==
          [APP_NAME |-> <<args.app_name>>,
           ENVIRONMENT |-> <<args.environment>>,
           CONTAINER_REGISTRY |-> <<args.registry>>,
           IMAGE_TAG |-> <<args.image_tag>>,
           REPLICAS |-> <<args.replicas>>,
           FEATURE_FLAGS |-> <<IF args.environment = "prod" THEN "false" ELSE "true">>,
           DB_USER |-> <<"dbuser">>,
           DB_PASSWORD |-> <<"placeholder">>,
           DB_HOST |-> <<"db-" \o args.environment>>,
           DB_NAME |-> <<args.app_name \o "-" \o args.environment>>,
           API_KEY |-> <<"placeholder">>]
    IN  custom_values @@ values

\* the files copy_template_files writes for each method, under the output
\* directory
OutputFiles(method, environment) ==
    CASE method = "kubectl"   -> {"deployment.yaml"}
      [] method = "kustomize" -> {"base/deployment.yaml", "base/kustomization.yaml",
                                  "overlays/" \o environment \o "/kustomization.yaml"}
      [] method = "argocd"    -> {"argocd/application.yaml"}
      [] method = "flux"      -> {"flux/deployment.yaml"}
      [] OTHER                -> {}

k8s_parse_arguments(flags) ==
    IF \/ "app_name" \notin DOMAIN flags
       \/ GetOr(flags, "environment", "dev") \notin {"dev", "test", "staging", "prod"}
       \/ GetOr(flags, "method", "kubectl") \notin DEPLOYMENT_METHODS
    THEN [ok |-> FALSE, status |-> 2]
    ELSE [ok |-> TRUE,
          args |-> [app_name |-> flags["app_name"],
                    environment |-> GetOr(flags, "environment", "dev"),
                    registry |-> GetOr(flags, "registry", "ghcr.io/your-org"),
                    image_tag |-> GetOr(flags, "image_tag", "latest"),
                    replicas |-> GetOr(flags, "replicas", "2"),
                    method |-> GetOr(flags, "method", "kubectl"),
                    custom_values |-> GetOr(flags, "custom_values", "None")]]

\* main of k8s-config-generator.py; every template file of the method holds
\* the text of the template under edit
k8s_main(flags, customFile, text) ==
    LET parsed == k8s_parse_arguments(flags) IN
    IF ~parsed.ok THEN Failed("k8s", flags, EmptyMap, parsed.status) ELSE
    LET args == parsed.args
        custom_values == Load(args.custom_values, customFile)
    IN
    IF ~custom_values.ok THEN Failed("k8s", flags, args, 1) ELSE
    LET values == TemplateValues(args, custom_values.data)
    IN  Outcome("k8s", flags, args, EmptyMap, values, TRUE,
                [files |-> OutputFiles(args.method, args.environment),
                 template |-> text,
                 result |-> safe_substitute(text, values)], 0)

\* bound of the model: the longest template, in symbols
MaxTemplateLen == 6

TemplateSymbols == {"$", "{", "}", "APP_NAME", "MISSING"}

K8sFlagVals ==
    [app_name |-> {"shop"}, custom_values |-> {"custom.json"}]

K8sCommandLines == PartialMaps(K8sFlagVals, 2)

\* what a custom-values file holds for the placeholders
PlaceholderVals ==
    [APP_NAME |-> {<<"$", "{", "ENVIRONMENT", "}">>},
     MISSING  |-> {<<"found">>}]

\* the template author adds a symbol to the template
EditTemplate ==
    /\ run.prog = "none"
    /\ Len(template) < MaxTemplateLen
    /\ \E c \in TemplateSymbols : template' = Append(template, c)
    /\ UNCHANGED <<env, settings, custom, edits, run, devcontainer, cicd_settings,
                   wizard, helper, cicd_scripts>>

\* the user gives a placeholder a value in the custom-values file
SetPlaceholder ==
    /\ run.prog = "none"
    /\ \E key \in DOMAIN PlaceholderVals : \E val \in PlaceholderVals[key] :
          /\ key \notin DOMAIN custom.data
          /\ custom' = File((key :> val) @@ custom.data)
    /\ UNCHANGED <<env, settings, template, edits, run, devcontainer, cicd_settings,
                   wizard, helper, cicd_scripts>>

RunK8s ==
    /\ run.prog = "none"
    /\ \E flags \in K8sCommandLines : run' = k8s_main(flags, custom, template)
    /\ UNCHANGED <<env, settings, custom, template, edits, devcontainer, cicd_settings,
                   wizard, helper, cicd_scripts>>

NextSubst ==
    \/ EditTemplate
    \/ SetPlaceholder
    \/ RunK8s
    \/ NextCommand

SpecSubst == Init /\ [][NextSubst]_vars

(***************************************************************************)
(* Reading a template: its tokens, as the documentation of string.Template *)
(* describes them.                                                         *)
(***************************************************************************)
Substituted == run.prog = "k8s" /\ run.written

\* the tokens of a text from position i on: a symbol of plain text, "$$",
\* "$NAME", "${NAME}", or a "$" that begins none of these
RECURSIVE Tokens(_, _)
Tokens(text, i) ==
    IF i > Len(text) THEN <<>>
    ELSE IF text[i] # "$"
    THEN <<[kind |-> "text", name |-> "", text |-> <<text[i]>>]>> \o Tokens(text, i + 1)
    ELSE LET mo == Match(text, i)
         IN  <<[kind |-> mo.kind, name |-> mo.name,
                text |-> SubSeq(text, i, i + mo.len - 1)]>>
             \o Tokens(text, i + mo.len)

\* what a token becomes: a placeholder with a value becomes the value, "$$"
\* becomes "$", anything else stays
Rendered(token, mapping) ==
    IF token.kind \in {"named", "braced"} /\ token.name \in DOMAIN mapping
    THEN mapping[token.name]
    ELSE IF token.kind = "escaped" THEN <<"$">>
    ELSE token.text

RenderedAll(tokens, mapping) ==
    Flatten([i \in 1..Len(tokens) |-> Rendered(tokens[i], mapping)])

UsedNames(text) ==
    LET tokens == Tokens(text, 1)
    IN  {tokens[i].name : i \in {j \in 1..Len(tokens) : tokens[j].kind \in {"named", "braced"}}}

Without(mapping, key) == [k \in DOMAIN mapping \ {key} |-> mapping[k]]

HasToken(text, kind, known, mapping) ==
    \E i \in 1..Len(Tokens(text, 1)) :
        /\ Tokens(text, 1)[i].kind = kind
        /\ (Tokens(text, 1)[i].name \in DOMAIN mapping) = known

(***************************************************************************)
(* C6  Substitution is total and safe.                                     *)
(***************************************************************************)
\* C6: every run of the manifest generator that gets past its argument
\* parsing with a readable custom-values file writes its output; in the
\* output every ${NAME} token whose NAME has a value is replaced by the
\* value, every token whose NAME has none is left as it is, and a key the
\* template does not use changes nothing.
C6_TotalAndSafe ==
    /\ (run.prog = "k8s" /\ k8s_parse_arguments(run.flags).ok /\ custom.state # "malformed")
          => (run.written /\ run.status = 0)
    /\ Substituted =>
          /\ run.doc.result = RenderedAll(Tokens(run.doc.template, 1), run.values)
          /\ \A key \in DOMAIN run.values \ UsedNames(run.doc.template) :
                safe_substitute(run.doc.template, Without(run.values, key)) = run.doc.result

\* a template with a ${NAME} token that has a value and a token that has
\* none, substituted with a mapping that has keys the template does not use
C6_Witness ==
    /\ Substituted
    /\ HasToken(run.doc.template, "braced", TRUE, run.values)
    /\ \/ HasToken(run.doc.template, "named", FALSE, run.values)
       \/ HasToken(run.doc.template, "braced", FALSE, run.values)
    /\ DOMAIN run.values \ UsedNames(run.doc.template) # {}
    /\ run.doc.result # run.doc.template

(***************************************************************************)
(* C7  Substitution twice.                                                 *)
(***************************************************************************)
\* C7 as stated: for every template and every mapping, values holding "$"
\* and templates holding "$$" included, substituting the mapping into the
\* result gives the result again.
C7_Idempotent ==
    Substituted => safe_substitute(run.doc.result, run.values) = run.doc.result

NoDollarInValues(mapping) ==
    \A key \in DOMAIN mapping : \A i \in 1..Len(mapping[key]) : mapping[key][i] # "$"

\* every "$" of the text begins a ${NAME} token, or a $NAME token whose NAME
\* has a value
OnlyPlaceholders(text, mapping) ==
    \A i \in 1..Len(Tokens(text, 1)) :
        LET token == Tokens(text, 1)[i]
        IN  \/ token.kind \in {"text", "braced"}
            \/ token.kind = "named" /\ token.name \in DOMAIN mapping

\* C7 amended: when no value of the mapping holds a "$" and every "$" of the
\* template begins a ${NAME} token or a $NAME token that has a value (no
\* "$$", no stray "$", no $NAME without a value), substituting the mapping
\* into the result gives the result again.
C7_IdempotentOnPlaceholders ==
    (Substituted /\ NoDollarInValues(run.values)
                 /\ OnlyPlaceholders(run.doc.template, run.values))
        => safe_substitute(run.doc.result, run.values) = run.doc.result

\* a template of placeholders only, one of them replaced, substituted with
\* values that hold no "$"
C7_Witness ==
    /\ Substituted /\ NoDollarInValues(run.values)
    /\ OnlyPlaceholders(run.doc.template, run.values)
    /\ HasToken(run.doc.template, "braced", TRUE, run.values)
    /\ run.doc.result # run.doc.template

(***************************************************************************)
(* configure.py: the container definition written from the settings file.  *)
(***************************************************************************)
default_config ==
    [languages |-> [python |-> TRUE, java |-> TRUE, javascript |-> TRUE, go |-> TRUE],
     cicd |-> [docker |-> TRUE, terraform |-> TRUE, kubectl |-> TRUE, helm |-> TRUE,
               github_actions |-> TRUE],
     kubernetes |-> [k9s |-> TRUE, kustomize |-> TRUE, argocd_cli |-> TRUE, lens |-> FALSE,
                     kubeseal |-> TRUE, flux |-> TRUE, kind |-> TRUE, minikube |-> TRUE,
                     openshift_cli |-> FALSE],
     build_tools |-> [gradle |-> TRUE, maven |-> TRUE, ant |-> TRUE, make |-> TRUE,
                      cmake |-> TRUE],
     code_analysis |-> [sonarqube |-> TRUE, checkstyle |-> TRUE, pmd |-> TRUE,
                        eslint |-> TRUE, pylint |-> TRUE],
     devops_tools |-> [nexus |-> TRUE, prometheus |-> TRUE, grafana |-> TRUE, elk |-> TRUE,
                       jenkins |-> FALSE],
     versions |-> [python |-> "3.11", java |-> "17", node |-> "20", go |-> "1.21",
                   nexus |-> "3.50.0", prometheus |-> "2.45.0", grafana |-> "10.0.0",
                   k9s |-> "0.29.1", argocd |-> "2.8.4", flux |-> "2.1.2",
                   kustomize |-> "5.2.1"]]

\* str(x).lower() of a boolean
Str(b) == IF b THEN "true" ELSE "false"

\* the keys configure.py reads with config[category][key]
Indexed ==
    [versions |-> {"python", "java", "node", "go"},
     languages |-> {"python", "java", "javascript", "go"},
     cicd |-> {"docker", "terraform", "kubectl", "helm", "github_actions"},
     kubernetes |-> {"k9s", "kustomize", "argocd_cli", "lens", "kubeseal", "flux", "kind",
                     "minikube", "openshift_cli"},
     build_tools |-> {"gradle", "maven", "ant", "make", "cmake"},
     code_analysis |-> {"sonarqube", "checkstyle", "pmd", "eslint", "pylint"},
     devops_tools |-> {"nexus", "prometheus", "grafana", "elk", "jenkins"}]

\* building the devcontainer dictionary raises KeyError
RaisesKeyError(config) ==
    \E cat \in DOMAIN Indexed :
        \/ cat \notin DOMAIN config
        \/ \E key \in Indexed[cat] : key \notin DOMAIN config[cat]

\* the build arguments of the devcontainer dictionary
ConfigureArgs(config) ==
    LET v == config.versions
        l == config.languages
        c == config.cicd
        k == config.kubernetes
        b == config.build_tools
        a == config.code_analysis
        d == config.devops_tools
    IN  [PYTHON_VERSION |-> v.python, JAVA_VERSION |-> v.java, NODE_VERSION |-> v.node,
         GO_VERSION |-> v.go,
         INSTALL_PYTHON |-> Str(l.python), INSTALL_JAVA |-> Str(l.java),
         INSTALL_JS |-> Str(l.javascript), INSTALL_GO |-> Str(l.go),
         INSTALL_DOCKER |-> Str(c.docker), INSTALL_TERRAFORM |-> Str(c.terraform),
         INSTALL_KUBECTL |-> Str(c.kubectl), INSTALL_HELM |-> Str(c.helm),
         INSTALL_GITHUB_ACTIONS |-> Str(c.github_actions),
         INSTALL_K9S |-> Str(k.k9s), K9S_VERSION |-> GetOr(v, "k9s", "0.29.1"),
         INSTALL_KUSTOMIZE |-> Str(k.kustomize),
         KUSTOMIZE_VERSION |-> GetOr(v, "kustomize", "5.2.1"),
         INSTALL_ARGOCD_CLI |-> Str(k.argocd_cli),
         ARGOCD_VERSION |-> GetOr(v, "argocd", "2.8.4"),
         INSTALL_LENS |-> Str(k.lens), INSTALL_KUBESEAL |-> Str(k.kubeseal),
         INSTALL_FLUX |-> Str(k.flux), FLUX_VERSION |-> GetOr(v, "flux", "2.1.2"),
         INSTALL_KIND |-> Str(k.kind), INSTALL_MINIKUBE |-> Str(k.minikube),
         INSTALL_OPENSHIFT_CLI |-> Str(k.openshift_cli),
         INSTALL_GRADLE |-> Str(b.gradle), INSTALL_MAVEN |-> Str(b.maven),
         INSTALL_ANT |-> Str(b.ant), INSTALL_MAKE |-> Str(b.make),
         INSTALL_CMAKE |-> Str(b.cmake),
         INSTALL_SONARQUBE |-> Str(a.sonarqube), INSTALL_CHECKSTYLE |-> Str(a.checkstyle),
         INSTALL_PMD |-> Str(a.pmd), INSTALL_ESLINT |-> Str(a.eslint),
         INSTALL_PYLINT |-> Str(a.pylint),
         INSTALL_NEXUS |-> Str(d.nexus), NEXUS_VERSION |-> GetOr(v, "nexus", "3.50.0"),
         INSTALL_PROMETHEUS |-> Str(d.prometheus),
         PROMETHEUS_VERSION |-> GetOr(v, "prometheus", "2.45.0"),
         INSTALL_GRAFANA |-> Str(d.grafana),
         GRAFANA_VERSION |-> GetOr(v, "grafana", "10.0.0"),
         INSTALL_ELK |-> Str(d.elk), INSTALL_JENKINS |-> Str(d.jenkins)]

\* any(config["kubernetes"].values())
AnyValue(mapping) == \E key \in DOMAIN mapping : mapping[key]

\* customizations.vscode.extensions, in the order of the appends
ConfigureExtensions(config) ==
    LET l == config.languages
        c == config.cicd
        k == config.kubernetes
        a == config.code_analysis
        d == config.devops_tools
    IN  When(l.python, <<"ms-python.python", "ms-python.vscode-pylance",
                         "ms-python.black-formatter">>)
        \o When(l.java, <<"vscjava.vscode-java-pack", "redhat.java", "vscjava.vscode-maven",
                          "vscjava.vscode-gradle">>)
        \o When(l.javascript, <<"dbaeumer.vscode-eslint", "esbenp.prettier-vscode",
                                "ms-vscode.vscode-typescript-next">>)
        \o When(l.go, <<"golang.go">>)
        \o When(c.docker, <<"ms-azuretools.vscode-docker">>)
        \o When(c.terraform, <<"hashicorp.terraform">>)
        \o When(c.kubectl \/ c.helm, <<"ms-kubernetes-tools.vscode-kubernetes-tools">>)
        \o When(AnyValue(k), <<"ms-kubernetes-tools.vscode-kubernetes-tools",
                               "mindaro.mindaro">>)
        \o When(k.argocd_cli, <<"argoproj.argocd-vscode-extension">>)
        \o When(k.flux, <<"weaveworks.vscode-gitops-tools">>)
        \o When(c.github_actions, <<"github.vscode-github-actions">>)
        \o When(a.sonarqube, <<"SonarSource.sonarlint-vscode">>)
        \o When(a.checkstyle /\ l.java, <<"shengchen.vscode-checkstyle">>)
        \o When(a.pmd /\ l.java, <<"vscjava.vscode-java-dependency">>)
        \o When(a.eslint /\ l.javascript, <<"dbaeumer.vscode-eslint">>)
        \o When(a.pylint /\ l.python, <<"ms-python.pylint">>)
        \o When(d.jenkins, <<"secanis.jenkinsfile-support">>)
        \o <<"github.copilot", "github.copilot-chat", "ms-vsliveshare.vsliveshare",
             "streetsidesoftware.code-spell-checker", "eamodio.gitlens">>

ConfigurePorts(config) ==
    LET d == config.devops_tools
    IN  When(d.nexus, <<8081>>) \o When(d.prometheus, <<9090>>)
        \o When(d.grafana, <<3000>>) \o When(d.elk, <<9200, 9300, 5601>>)
        \o When(d.jenkins, <<8080>>)

\* the devcontainer dictionary
Devcontainer(config) ==
    [name |-> "DevOps OS - Multi-Language Development Environment",
     build |-> [dockerfile |-> "Dockerfile", args |-> ConfigureArgs(config)],
     mounts |-> <<"source=/var/run/docker.sock,target=/var/run/docker.sock,type=bind">>,
     extensions |-> ConfigureExtensions(config),
     forwardPorts |-> ConfigurePorts(config)]
    @@ (IF AnyValue(config.kubernetes)
        THEN "postCreateCommand" :>
                "chmod +x /workspaces/.devcontainer/k8s-config-generator.py && ln -sf /workspaces/.devcontainer/k8s-config-generator.py /usr/local/bin/k8s-config-generator"
        ELSE EmptyMap)

\* the script: what it reads, what it leaves in the two files, how it ends
configure(settingsFile) ==
    IF settingsFile.state = "malformed"
    THEN [config |-> EmptyMap, settings |-> settingsFile, written |-> FALSE,
          doc |-> EmptyMap, status |-> 1]
    ELSE LET config == IF settingsFile.state = "ok" THEN settingsFile.data
                       ELSE default_config
             left == IF settingsFile.state = "ok" THEN settingsFile
                     ELSE OrderedFile(default_config, Langs)
         IN  IF RaisesKeyError(config)
             THEN [config |-> config, settings |-> left, written |-> FALSE,
                   doc |-> EmptyMap, status |-> 1]
             ELSE [config |-> config, settings |-> left, written |-> TRUE,
                   doc |-> Devcontainer(config), status |-> 0]

(***************************************************************************)
(* devopsos.py: the init wizard and the scaffold command.                  *)
(***************************************************************************)
\* the options the wizard offers in each category
categories ==
    [languages |-> {"python", "java", "node", "ruby", "csharp", "php", "rust", "typescript",
                    "kotlin", "c", "cpp", "javascript", "go"},
     cicd |-> {"docker", "terraform", "kubectl", "helm", "github_actions", "jenkins"},
     kubernetes |-> {"k9s", "kustomize", "argocd_cli", "lens", "kubeseal", "flux", "kind",
                     "minikube", "openshift_cli"},
     build_tools |-> {"gradle", "maven", "ant", "make", "cmake"},
     code_analysis |-> {"sonarqube", "checkstyle", "pmd", "eslint", "pylint"},
     devops_tools |-> {"nexus", "prometheus", "grafana", "elk", "jenkins"}]

\* the languages in the order the wizard lists them
languages_order ==
    <<"python", "java", "node", "ruby", "csharp", "php", "rust", "typescript", "kotlin",
      "c", "cpp", "javascript", "go">>

versions_defaults ==
    [python |-> "3.11", java |-> "17", node |-> "20", go |-> "1.21", nexus |-> "3.50.0",
     prometheus |-> "2.45.0", grafana |-> "10.0.0", k9s |-> "0.29.1", argocd |-> "2.8.4",
     flux |-> "2.1.2", kustomize |-> "5.2.1", jenkins |-> "2.440.1"]

\* the versions asked for: those of the selected options only, each answered
\* with the default the prompt proposes
selected_versions(selected_options) ==
    LET named == {opt \in selected_options.languages \cup selected_options.devops_tools :
                     opt \in DOMAIN versions_defaults}
        k8s   == {IF opt = "argocd_cli" THEN "argocd" ELSE opt :
                     opt \in selected_options.kubernetes
                             \cap {"k9s", "argocd_cli", "flux", "kustomize"}}
    IN  [k \in named \cup k8s |-> GetOr(versions_defaults, k, "")]

\* the record the wizard builds from the selections
InitConfig(selected_options) ==
    [cat \in DOMAIN categories |->
        [opt \in categories[cat] |-> opt \in selected_options[cat]]]
    @@ [versions |-> selected_versions(selected_options)]

lang_map ==
    [python |-> "INSTALL_PYTHON", java |-> "INSTALL_JAVA", node |-> "INSTALL_JS",
     ruby |-> "INSTALL_RUBY", csharp |-> "INSTALL_CSHARP", php |-> "INSTALL_PHP",
     rust |-> "INSTALL_RUST", typescript |-> "INSTALL_TYPESCRIPT",
     kotlin |-> "INSTALL_KOTLIN", c |-> "INSTALL_C", cpp |-> "INSTALL_CPP",
     javascript |-> "INSTALL_JAVASCRIPT", go |-> "INSTALL_GO"]

cicd_map ==
    [docker |-> "INSTALL_DOCKER", terraform |-> "INSTALL_TERRAFORM",
     kubectl |-> "INSTALL_KUBECTL", helm |-> "INSTALL_HELM",
     github_actions |-> "INSTALL_GITHUB_ACTIONS", jenkins |-> "INSTALL_JENKINS"]

k8s_map ==
    [k9s |-> "INSTALL_K9S", kustomize |-> "INSTALL_KUSTOMIZE",
     argocd_cli |-> "INSTALL_ARGOCD_CLI", lens |-> "INSTALL_LENS",
     kubeseal |-> "INSTALL_KUBESEAL", flux |-> "INSTALL_FLUX", kind |-> "INSTALL_KIND",
     minikube |-> "INSTALL_MINIKUBE", openshift_cli |-> "INSTALL_OPENSHIFT_CLI"]

build_map ==
    [gradle |-> "INSTALL_GRADLE", maven |-> "INSTALL_MAVEN", ant |-> "INSTALL_ANT",
     make |-> "INSTALL_MAKE", cmake |-> "INSTALL_CMAKE"]

analysis_map ==
    [sonarqube |-> "INSTALL_SONARQUBE", checkstyle |-> "INSTALL_CHECKSTYLE",
     pmd |-> "INSTALL_PMD", eslint |-> "INSTALL_ESLINT", pylint |-> "INSTALL_PYLINT"]

devops_map ==
    [nexus |-> "INSTALL_NEXUS", prometheus |-> "INSTALL_PROMETHEUS",
     grafana |-> "INSTALL_GRAFANA", elk |-> "INSTALL_ELK", jenkins |-> "INSTALL_JENKINS"]

\* for tool, arg in map.items(): build_args[arg] = str(category.get(tool, False)).lower()
ArgsOf(map, category) ==
    [arg \in {map[tool] : tool \in DOMAIN map} |->
        Str(Get(category, CHOOSE tool \in DOMAIN map : map[tool] = arg))]

\* k.upper() + "_VERSION", the bare upper-case name for the four Kubernetes tools
VersionArg ==
    [python |-> "PYTHON_VERSION", java |-> "JAVA_VERSION", node |-> "NODE_VERSION",
     go |-> "GO_VERSION", nexus |-> "NEXUS_VERSION", prometheus |-> "PROMETHEUS_VERSION",
     grafana |-> "GRAFANA_VERSION", jenkins |-> "JENKINS_VERSION",
     k9s |-> "K9S", argocd |-> "ARGOCD", flux |-> "FLUX", kustomize |-> "KUSTOMIZE"]

\* the build arguments, each later assignment replacing an earlier one
build_args(config) ==
    [arg \in {VersionArg[k] : k \in DOMAIN config.versions} |->
        config.versions[CHOOSE k \in DOMAIN config.versions : VersionArg[k] = arg]]
    @@ ArgsOf(devops_map, config.devops_tools)
    @@ ArgsOf(analysis_map, config.code_analysis)
    @@ ArgsOf(build_map, config.build_tools)
    @@ ArgsOf(k8s_map, config.kubernetes)
    @@ ArgsOf(cicd_map, config.cicd)
    @@ ArgsOf(lang_map, config.languages)

\* devcontainer_json.setdefault("build", {})["args"] = build_args
WithBuildArgs(file, args) ==
    LET devcontainer_json ==
            IF file.state = "ok" THEN file.data
            ELSE [build |-> [dockerfile |-> "Dockerfile", args |-> EmptyMap]]
        build == IF "build" \in DOMAIN devcontainer_json THEN devcontainer_json.build
                 ELSE EmptyMap
    IN  ("build" :> (("args" :> args) @@ build)) @@ devcontainer_json

\* C22 mutant: the settings file is written before the review prompt
init_until_prompt_writing_before_review(selected_options, proceed, settingsFile) ==
    LET config == InitConfig(selected_options) IN
    [config |-> config, settings |-> OrderedFile(config, languages_order),
     waiting |-> proceed, status |-> IF proceed THEN 0 ELSE 1]

\* the wizard up to its last prompt: the selections, the answer to "Proceed
\* with this configuration?" and, on a yes, the settings file written; it
\* then waits at "Generate Dockerfile and devcontainer.json now?"
init_until_prompt(selected_options, proceed, settingsFile) ==
    LET config == InitConfig(selected_options) IN
    IF ~proceed
    THEN [config |-> config, settings |-> settingsFile, waiting |-> FALSE, status |-> 1]
    ELSE [config |-> config, settings |-> OrderedFile(config, languages_order),
          waiting |-> TRUE, status |-> 0]

\* the wizard from the answer to its last prompt: devcontainer.json is read
\* and written now, from the record the wizard holds in memory
init_after_prompt(config, generate, devcontainerFile) ==
    IF ~generate
    THEN [devcontainer |-> devcontainerFile, written |-> FALSE, status |-> 0]
    ELSE IF devcontainerFile.state = "malformed"
    THEN [devcontainer |-> devcontainerFile, written |-> FALSE, status |-> 1]
    ELSE [devcontainer |-> File(WithBuildArgs(devcontainerFile, build_args(config))),
          written |-> TRUE, status |-> 0]

\* the scaffold command: the generator it invokes and what it prints
scaffold(target) ==
    CASE target = "cicd"    -> [invoked |-> {"scaffold_cicd.main"}, stdout |-> <<>>]
      [] target = "gha"     -> [invoked |-> {"scaffold_gha.main"}, stdout |-> <<>>]
      [] target = "jenkins" -> [invoked |-> {"scaffold_jenkins.main"}, stdout |-> <<>>]
      [] OTHER              -> [invoked |-> {}, stdout |-> <<"Unknown scaffold target.">>]

(***************************************************************************)
(* generate-cicd.py: the unified helper, which runs the GitHub Actions     *)
(* generator and the improved Jenkins generator as child processes.        *)
(***************************************************************************)
cicd_parse_arguments(flags) ==
    IF ~(ChoiceOk(flags, "type", {"build", "test", "deploy", "complete"})
         /\ ChoiceOk(flags, "k8s_method", Methods))
    THEN [ok |-> FALSE, status |-> 2]
    ELSE LET all == "all" \in DOMAIN flags
                    \/ ~("github" \in DOMAIN flags \/ "jenkins" \in DOMAIN flags)
         IN  [ok |-> TRUE, args |->
               [name          |-> "DevOps-OS",
                type          |-> GetOr(flags, "type", "complete"),
                languages     |-> GetOr(flags, "languages", DefaultLanguages),
                kubernetes    |-> "kubernetes" \in DOMAIN flags,
                k8s_method    |-> GetOr(flags, "k8s_method", "kubectl"),
                registry      |-> GetOr(flags, "registry", "docker.io"),
                image         |-> GetOr(flags, "image", "docker.io/yourorg/devops-os:latest"),
                custom_values |-> GetOr(flags, "custom_values", "None"),
                matrix        |-> "matrix" \in DOMAIN flags,
                parameters    |-> "parameters" \in DOMAIN flags,
                github        |-> all \/ "github" \in DOMAIN flags,
                jenkins       |-> all \/ "jenkins" \in DOMAIN flags]]

\* the options both child command lines are given
ChildFlags(args) ==
    [type |-> args.type, languages |-> args.languages, registry |-> args.registry,
     image |-> args.image]
    @@ (IF args.kubernetes
        THEN [kubernetes |-> TRUE, k8s_method |-> args.k8s_method] ELSE EmptyMap)
    @@ (IF args.custom_values # "None"
        THEN [custom_values |-> args.custom_values] ELSE EmptyMap)

\* the child process: python3 given the path of the script in the helper's
\* own directory. Where the script is not there python3 ends with status 2
\* before any option is read; subprocess.run(cmd, check=True) raises on a
\* non-zero exit status and the function returns False
run_github_generator(args, e, settingsFile, customFile, scripts) ==
    LET flags == ChildFlags(args) @@ (IF args.matrix THEN [matrix |-> TRUE] ELSE EmptyMap)
    IN  IF "github-actions-generator-improved.py" \in scripts
        THEN gha_main(flags, e, settingsFile, customFile)
        ELSE Failed("gha", flags, EmptyMap, 2)

\* blocked: the output directory holds a directory named Jenkinsfile, and the
\* child ends on the exception open() raises
run_jenkins_generator(args, e, settingsFile, customFile, blocked, scripts) ==
    LET flags == ChildFlags(args)
                 @@ (IF args.parameters THEN [parameters |-> TRUE] ELSE EmptyMap)
        child == ji_main(flags, e, settingsFile, customFile)
    IN  IF "jenkins-pipeline-generator-improved.py" \notin scripts
        THEN Failed("ji", flags, EmptyMap, 2)
        ELSE IF blocked /\ child.written THEN Failed("ji", flags, child.args, 1)
        ELSE child

NotRun == [prog |-> "none", written |-> FALSE, status |-> 0]

\* main from its start to the return of run_github_generator: the command
\* line is parsed and the GitHub Actions child, when selected, has ended. The
\* files are read by the child, at the time it runs
cicd_main_until_jenkins(flags, e, settingsFile, customFile, scripts) ==
    LET parsed == cicd_parse_arguments(flags) IN
    IF ~parsed.ok THEN [ok |-> FALSE, status |-> parsed.status]
    ELSE [ok |-> TRUE, args |-> parsed.args,
          github |-> IF parsed.args.github
                     THEN run_github_generator(parsed.args, e, settingsFile, customFile,
                                               scripts)
                     ELSE NotRun]

\* C28 mutant: main gives up at the first generator that fails
cicd_main_from_jenkins_stopping_at_first_failure(flags, args, github, e, settingsFile, customFile, blocked, scripts) ==
    LET runs == args.jenkins /\ github.status = 0
        jenkins == IF runs
                   THEN run_jenkins_generator(args, e, settingsFile, customFile, blocked,
                                              scripts)
                   ELSE NotRun
        success == github.status = 0 /\ jenkins.status = 0
    IN  Outcome("cicd", flags, args, EmptyMap, EmptyMap,
                github.written \/ jenkins.written \/ success,
                [github |-> github, jenkins |-> jenkins, readme |-> success,
                 events |-> When(args.github, <<"github">>)
                            \o When(runs, <<"jenkins">>)
                            \o When(success, <<"readme">>)], 0)

\* the rest of main: the Jenkins child, when selected, run on the files as
\* they are now, then CICD-README.md when neither child failed. The outcome
\* holds the children's outcomes, whether the README was created, and the
\* exit status; main returns normally whatever success is
\* events: what main did, in the order of its statements; subprocess.run
\* returns when the child has ended, so each entry is a finished step
cicd_main_from_jenkins(flags, args, github, e, settingsFile, customFile, blocked, scripts) ==
    LET jenkins == IF args.jenkins
                   THEN run_jenkins_generator(args, e, settingsFile, customFile, blocked,
                                              scripts)
                   ELSE NotRun
        success == github.status = 0 /\ jenkins.status = 0
    IN  Outcome("cicd", flags, args, EmptyMap, EmptyMap,
                github.written \/ jenkins.written \/ success,
                [github |-> github, jenkins |-> jenkins, readme |-> success,
                 events |-> When(args.github, <<"github">>)
                            \o When(args.jenkins, <<"jenkins">>)
                            \o When(success, <<"readme">>)], 0)

(***************************************************************************)
(* The container definition and the command line tool as a state machine:  *)
(* the wizard and configure.py write the settings file and                 *)
(* devcontainer.json, the user takes keys out of the settings file, the    *)
(* generators read it.                                                     *)
(***************************************************************************)
\* what the user ticks in the wizard
InitChoices ==
    [languages |-> {{"python", "go"}, {"python", "java", "node", "go"}},
     cicd |-> {{"docker", "jenkins"}},
     kubernetes |-> {{"k9s", "flux"}},
     build_tools |-> {{"maven"}},
     code_analysis |-> {{"pylint"}},
     devops_tools |-> {{}, {"grafana", "jenkins"}}]

Selections ==
    {[languages |-> l, cicd |-> c, kubernetes |-> k, build_tools |-> b,
      code_analysis |-> a, devops_tools |-> d] :
        l \in InitChoices.languages, c \in InitChoices.cicd,
        k \in InitChoices.kubernetes, b \in InitChoices.build_tools,
        a \in InitChoices.code_analysis, d \in InitChoices.devops_tools}

\* the keys the user may take out of the settings file
RemovableKeys ==
    [languages |-> {"go"}, kubernetes |-> {"flux"}, code_analysis |-> {"pylint"},
     devops_tools |-> {"jenkins"}]

RunConfigure ==
    /\ run.prog = "none"
    /\ LET r == configure(settings)
       IN  /\ settings' = r.settings
           /\ devcontainer' = IF r.written THEN File(r.doc) ELSE devcontainer
           /\ run' = Outcome("configure", EmptyMap, EmptyMap, r.config, EmptyMap,
                             r.written, r.doc, r.status)
    /\ UNCHANGED <<env, custom, template, edits, cicd_settings, wizard, helper, cicd_scripts>>

\* init from its start to the refusal of the review or to its last prompt,
\* where it waits for the answer while other commands may be run
RunInit ==
    /\ run.prog = "none" /\ wizard.pc = "idle"
    /\ \E sel \in Selections : \E proceed \in BOOLEAN :
          LET r == init_until_prompt(sel, proceed, settings)
          IN  /\ settings' = r.settings
              /\ IF r.waiting
                 THEN /\ wizard' = [pc |-> "prompt", selected_options |-> sel,
                                    config |-> r.config]
                      /\ run' = run
                 ELSE /\ wizard' = wizard
                      /\ run' = Outcome("init", [proceed |-> FALSE], sel, r.config,
                                        EmptyMap, FALSE, EmptyMap, r.status)
    /\ UNCHANGED <<env, cicd_settings, custom, template, devcontainer, edits, helper,
                   cicd_scripts>>

\* the answer to the last prompt, and the rest of init
AnswerInit ==
    /\ run.prog = "none" /\ wizard.pc = "prompt"
    /\ \E generate \in BOOLEAN :
          LET r == init_after_prompt(wizard.config, generate, devcontainer)
          IN  /\ devcontainer' = r.devcontainer
              /\ run' = Outcome("init", [proceed |-> TRUE, generate |-> generate],
                                wizard.selected_options, wizard.config, EmptyMap,
                                r.written,
                                IF r.written THEN r.devcontainer.data ELSE EmptyMap,
                                r.status)
    /\ wizard' = NoWizard
    /\ UNCHANGED <<env, settings, cicd_settings, custom, template, edits, helper,
                   cicd_scripts>>

RunScaffold ==
    /\ run.prog = "none"
    /\ \E target \in {"cicd", "gha", "jenkins", "k8s", "unknown"} :
          run' = Outcome("scaffold", [target |-> target], EmptyMap, EmptyMap, EmptyMap,
                         FALSE, scaffold(target), 0)
    /\ UNCHANGED <<env, settings, custom, template, devcontainer, edits, cicd_settings,
                   wizard, helper, cicd_scripts>>

\* the user takes one key out of a category of the settings file
RemoveKey ==
    /\ CanEdit
    /\ settings.state = "ok"
    /\ \E cat \in DOMAIN RemovableKeys : \E key \in RemovableKeys[cat] :
          /\ cat \in DOMAIN settings.data
          /\ key \in DOMAIN settings.data[cat]
          /\ settings' = OrderedFile([settings.data EXCEPT ![cat] = Without(@, key)],
                                     IF cat = "languages"
                                     THEN SelectSeq(settings.order, LAMBDA k : k # key)
                                     ELSE settings.order)
    /\ edits' = edits + 1
    /\ UNCHANGED <<env, custom, template, devcontainer, run, cicd_settings, wizard, helper, cicd_scripts>>

\* the user copies the settings file to the directory of the improved
\* Jenkins generator and the helper
CopySettings ==
    /\ CanEdit
    /\ settings # NoFile /\ cicd_settings # settings
    /\ cicd_settings' = settings
    /\ edits' = edits + 1
    /\ UNCHANGED <<env, settings, custom, template, devcontainer, run, wizard, helper, cicd_scripts>>

\* the generators run on the settings file each finds in its own directory,
\* with no option but the type
ReadByGha ==
    /\ run.prog = "none"
    /\ \E flags \in PartialMaps([type |-> GhaFlagVals.type], 1) :
          run' = gha_main(flags, env, settings, custom)
    /\ UNCHANGED <<env, settings, custom, template, devcontainer, edits, cicd_settings,
                   wizard, helper, cicd_scripts>>

ReadByJi ==
    /\ run.prog = "none"
    /\ \E flags \in PartialMaps([type |-> JiFlagVals.type], 1) :
          run' = ji_main(flags, env, cicd_settings, custom)
    /\ UNCHANGED <<env, settings, custom, template, devcontainer, edits, cicd_settings,
                   wizard, helper, cicd_scripts>>

\* the options given to the helper
CicdFlagVals ==
    [type |-> {"build", "bogus"}, kubernetes |-> {TRUE}, custom_values |-> {"custom.json"},
     matrix |-> {TRUE}, parameters |-> {TRUE}, github |-> {TRUE}, jenkins |-> {TRUE},
     all |-> {TRUE}]

CicdCommandLines == PartialMaps(CicdFlagVals, MaxFlags)

\* the helper from its start to the end of its first child; it then goes on
\* to the Jenkins child, and other commands and edits may come in between
RunCicd ==
    /\ run.prog = "none" /\ helper.pc = "idle"
    /\ \E flags \in CicdCommandLines :
          LET r == cicd_main_until_jenkins(flags, env, cicd_settings, custom, cicd_scripts)
          IN  IF r.ok
              THEN /\ helper' = [pc |-> "jenkins", flags |-> flags, args |-> r.args,
                                 github |-> r.github]
                   /\ run' = run
              ELSE /\ helper' = helper
                   /\ run' = Failed("cicd", flags, EmptyMap, r.status)
    /\ UNCHANGED <<env, settings, cicd_settings, custom, template, devcontainer, edits,
                   wizard, cicd_scripts>>

\* the helper's second child, the README and the end of the helper
RunCicdJenkins ==
    /\ run.prog = "none" /\ helper.pc = "jenkins"
    /\ \E blocked \in BOOLEAN :
          run' = cicd_main_from_jenkins(helper.flags, helper.args, helper.github, env,
                                        cicd_settings, custom, blocked, cicd_scripts)
    /\ helper' = NoHelper
    /\ UNCHANGED <<env, settings, cicd_settings, custom, template, devcontainer, edits,
                   wizard, cicd_scripts>>

\* the user copies the GitHub Actions generator from .devcontainer to cicd,
\* where the helper looks for it
CopyGenerator ==
    /\ run.prog = "none"
    /\ "github-actions-generator-improved.py" \notin cicd_scripts
    /\ cicd_scripts' = cicd_scripts \cup {"github-actions-generator-improved.py"}
    /\ UNCHANGED <<env, settings, cicd_settings, custom, template, devcontainer, edits,
                   run, wizard, helper>>

NextDev ==
    \/ RunConfigure
    \/ RunInit
    \/ AnswerInit
    \/ CopySettings
    \/ RunScaffold
    \/ RemoveKey
    \/ ReadByGha
    \/ ReadByJi
    \/ BreakFile
    \/ NextCommand

SpecDev == Init /\ [][NextDev]_vars

\* the helper as a state machine: it reads the settings file of cicd, which
\* the user edits or copies from the one configure.py wrote, and the
\* custom-values file
NextCicd ==
    \/ RunConfigure
    \/ CopySettings
    \/ EditSettings
    \/ EditCustom
    \/ BreakFile
    \/ CopyGenerator
    \/ RunCicd
    \/ RunCicdJenkins
    \/ NextCommand

SpecCicd == Init /\ [][NextCicd]_vars

(***************************************************************************)
(* The composer functions called on a record directly, as a caller other   *)
(* than main can: the record may lack a category.                          *)
(***************************************************************************)
AnalysisTools == {"sonarqube", "pylint", "checkstyle", "eslint"}

\* records holding none, one or both of the two categories the composers read
ComposeRecords ==
    PartialMaps([languages |-> [LangSet -> BOOLEAN],
                 code_analysis |-> [AnalysisTools -> BOOLEAN]], 2)

ComposeCommandLines == {EmptyMap, [matrix |-> TRUE], [kubernetes |-> TRUE]}

\* configs["languages"] raises KeyError when the record has no such key; it is
\* evaluated by each of these composers whatever the record holds
KeyError == [raised |-> "KeyError", key |-> "languages"]
Returned(d) == [raised |-> "none", doc |-> d]

compose_workflow(composer, args, values, configs) ==
    IF "languages" \notin DOMAIN configs THEN KeyError
    ELSE CASE composer = "generate_build_workflow" ->
                Returned(generate_build_workflow(args, values, configs))
           [] composer = "generate_test_workflow" ->
                Returned(generate_test_workflow(args, values, configs))
           [] composer = "generate_complete_workflow" ->
                Returned(generate_complete_workflow(args, values, configs))

compose_stage(composer, configs) ==
    IF "languages" \notin DOMAIN configs THEN KeyError
    ELSE CASE composer = "generate_build_stage" -> Returned(generate_build_stage(configs))
           [] composer = "generate_test_stage" -> Returned(generate_test_stage(configs))

WorkflowComposers ==
    {"generate_build_workflow", "generate_test_workflow", "generate_complete_workflow"}
StageComposers == {"generate_build_stage", "generate_test_stage"}

Composed(composer, args, configs, result) ==
    [prog |-> "compose", composer |-> composer, args |-> args, configs |-> configs,
     result |-> result]

ComposeWorkflow ==
    /\ run.prog = "none"
    /\ \E composer \in WorkflowComposers, flags \in ComposeCommandLines,
          configs \in ComposeRecords :
          LET args == gha_parse_arguments(flags, EmptyMap).args
          IN  run' = Composed(composer, args, configs,
                              compose_workflow(composer, args, EmptyMap, configs))
    /\ UNCHANGED <<env, settings, custom, template, devcontainer, edits, cicd_settings,
                   wizard, helper, cicd_scripts>>

ComposeStage ==
    /\ run.prog = "none"
    /\ \E composer \in StageComposers, configs \in ComposeRecords :
          run' = Composed(composer, EmptyMap, configs, compose_stage(composer, configs))
    /\ UNCHANGED <<env, settings, custom, template, devcontainer, edits, cicd_settings,
                   wizard, helper, cicd_scripts>>

\* the inputs of a composer call: the objects the caller passes by reference
Inputs(args, values, configs) == [args |-> args, values |-> values, configs |-> configs]

\* the document a composer returns
Call(composer, in) ==
    CASE composer = "generate_build_workflow" ->
            generate_build_workflow(in.args, in.values, in.configs)
      [] composer = "generate_test_workflow" ->
            generate_test_workflow(in.args, in.values, in.configs)
      [] composer = "generate_deploy_workflow" ->
            generate_deploy_workflow(in.args, in.values, in.configs)
      [] composer = "generate_complete_workflow" ->
            generate_complete_workflow(in.args, in.values, in.configs)
      [] composer = "generate_reusable_workflow" ->
            generate_reusable_workflow(in.args, in.values, in.configs)
      [] composer = "generate_pipeline" -> generate_pipeline(in.args, in.configs)
      [] composer = "generate_build_stage" -> generate_build_stage(in.configs)
      [] composer = "generate_test_stage" -> generate_test_stage(in.configs)
      [] composer = "generate_deploy_stage" -> generate_deploy_stage(in.args, in.configs)

\* one operation a composer applies to an object it was given. on: the
\* object, as the argument and, for the mapping a category of the record
\* holds, the category; kind: the Python operation; key: the attribute or
\* key; default: the second argument of get
Op(on, kind, key, default) == [on |-> on, kind |-> kind, key |-> key, default |-> default]

AttrOf(name) == Op(<<"args">>, "getattr", name, FALSE)
ValueOf(key, default) == Op(<<"values">>, "get", key, default)

\* configs["languages"].get(lang, False)
LanguageFlag(lang) ==
    <<Op(<<"configs">>, "getitem", "languages", FALSE),
      Op(<<"configs", "languages">>, "get", lang, FALSE)>>

\* configs.get("code_analysis", {}).get(tool, False)
AnalysisFlag(tool) ==
    <<Op(<<"configs">>, "get", "code_analysis", EmptyMap),
      Op(<<"configs", "code_analysis">>, "get", tool, FALSE)>>

\* for lang, enabled in configs["languages"].items()
LanguageLoop ==
    <<Op(<<"configs">>, "getitem", "languages", FALSE),
      Op(<<"configs", "languages">>, "items", "", FALSE)>>

\* the tests of the language blocks of a build job or stage
BuildReads == Flatten([i \in 1..Len(Langs) |-> LanguageFlag(Langs[i])])

LintTool == [python |-> "pylint", java |-> "checkstyle", javascript |-> "eslint"]

\* the tests of the language blocks of a test job or stage; the lint flag is
\* read inside the block of its language
TestReads(in) ==
    Flatten([i \in 1..Len(Langs) |->
        LanguageFlag(Langs[i])
        \o When(Get(in.configs.languages, Langs[i]) /\ Langs[i] \in DOMAIN LintTool,
                AnalysisFlag(LintTool[Langs[i]]))])

\* the head of the four workflows with push triggers
HeadReads(in) ==
    <<AttrOf("branches"), Op(<<"args", "branches">>, "split", ",", FALSE),
      AttrOf("image"), ValueOf("container_image", in.args.image), AttrOf("name")>>

\* if args.kubernetes: ... args.k8s_method, in the blocks of the Jenkins
\* generator
KubernetesReads(in) ==
    <<AttrOf("kubernetes")>> \o When(in.args.kubernetes, <<AttrOf("k8s_method")>>)

\* the operations a composer applies to its arguments, in the order of its
\* statements
RECURSIVE Operations(_, _)
Operations(composer, in) ==
    LET \* the three commands of the Docker step each name args.registry
        DockerReads == <<AttrOf("registry"), AttrOf("registry"), AttrOf("registry")>>
        \* if args.kubernetes: the if/elif chain over args.k8s_method reads the
        \* attribute once for every test up to the one that holds
        DeployReads ==
            <<AttrOf("kubernetes")>>
            \o When(in.args.kubernetes,
                    <<AttrOf("k8s_method")>>
                    \o When(in.args.k8s_method # "kubectl", <<AttrOf("k8s_method")>>)
                    \o When(in.args.k8s_method \notin {"kubectl", "kustomize"},
                            <<AttrOf("k8s_method")>>)
                    \o When(in.args.k8s_method \notin {"kubectl", "kustomize", "argocd"},
                            <<AttrOf("k8s_method")>>))
    IN
    CASE composer = "generate_build_workflow" ->
            HeadReads(in) \o <<AttrOf("matrix")>> \o BuildReads \o AnalysisFlag("sonarqube")
            \o <<AttrOf("matrix"), ValueOf("artifact_path", "dist/")>>
      [] composer = "generate_test_workflow" ->
            HeadReads(in) \o <<AttrOf("matrix")>> \o TestReads(in)
            \o <<AttrOf("matrix"), ValueOf("test_report_path", "test-reports/")>>
      [] composer = "generate_deploy_workflow" ->
            HeadReads(in) \o DockerReads \o DeployReads
      [] composer = "generate_complete_workflow" ->
            HeadReads(in) \o <<AttrOf("matrix")>> \o BuildReads
            \o <<AttrOf("matrix"), ValueOf("artifact_path", "dist/")>>
            \o TestReads(in) \o <<ValueOf("test_report_path", "test-reports/")>>
            \o DockerReads \o DeployReads
      [] composer = "generate_reusable_workflow" ->
            <<AttrOf("image"), ValueOf("container_image", in.args.image), AttrOf("name"),
              Op(<<"configs">>, "getitem", "languages", FALSE),
              Op(<<"configs", "languages">>, "json.dumps", "", FALSE),
              AttrOf("kubernetes"), AttrOf("k8s_method")>>
            \o DockerReads \o <<AttrOf("matrix")>>
      [] composer = "generate_parameters_block" ->
            <<AttrOf("parameters")>>
            \o When(in.args.parameters,
                    LanguageLoop \o KubernetesReads(in) \o <<AttrOf("registry")>>)
      [] composer = "generate_environment_block" ->
            <<AttrOf("registry")>> \o KubernetesReads(in) \o LanguageLoop
      [] composer = "generate_build_stage" -> BuildReads
      [] composer = "generate_test_stage" -> TestReads(in)
      [] composer = "generate_deploy_stage" -> <<AttrOf("kubernetes"), AttrOf("kubernetes")>>
      [] composer = "generate_pipeline" ->
            <<AttrOf("image")>>
            \o Operations("generate_parameters_block", in)
            \o Operations("generate_environment_block", in)
            \o <<AttrOf("type")>>
            \o When(in.args.type \in {"build", "complete", "parameterized"},
                    Operations("generate_build_stage", in))
            \o <<AttrOf("type")>>
            \o When(in.args.type \in {"test", "complete", "parameterized"},
                    Operations("generate_test_stage", in))
            \o <<AttrOf("type")>>
            \o When(in.args.type \in {"deploy", "complete", "parameterized"},
                    Operations("generate_deploy_stage", in))

\* C23 mutant: a composer written with setdefault where it has get
Left_get_as_setdefault(obj, op) ==
    IF op.kind = "get" /\ op.key \notin DOMAIN obj
    THEN (op.key :> op.default) @@ obj
    ELSE obj

\* what a Python operation leaves of the object it is applied to: an
\* attribute read, d[k], d.get(k, default), d.items(), s.split(sep) and
\* json.dumps(d) return a value and leave the object as it was;
\* d.setdefault(k, default) puts the key in when it is missing, d.pop(k) takes
\* it out, d[k] = v and setattr bind it
Left(obj, op) ==
    CASE op.kind \in {"getattr", "getitem", "get", "items", "split", "json.dumps"} -> obj
      [] op.kind = "setdefault" ->
            IF op.key \in DOMAIN obj THEN obj ELSE (op.key :> op.default) @@ obj
      [] op.kind = "pop" -> Without(obj, op.key)
      [] op.kind \in {"setitem", "setattr"} -> (op.key :> op.default) @@ obj

\* the three arguments after one operation. An operation on the mapping of a
\* category the record does not hold is applied to the default the get
\* before it returned, a new dictionary, and an operation on the value of an
\* attribute to a string: neither is one of the arguments
Apply(in, op) ==
    IF Len(op.on) = 1 THEN [in EXCEPT ![op.on[1]] = Left(@, op)]
    ELSE IF op.on[1] = "configs" /\ op.on[2] \in DOMAIN in.configs
    THEN [in EXCEPT !.configs = [@ EXCEPT ![op.on[2]] = Left(@, op)]]
    ELSE in

RECURSIVE ApplyAll(_, _)
ApplyAll(in, ops) == IF ops = <<>> THEN in ELSE ApplyAll(Apply(in, Head(ops)), Tail(ops))

\* the objects as the call leaves them
InputsAfter(composer, in) == ApplyAll(in, Operations(composer, in))

AllWorkflowComposers ==
    {"generate_build_workflow", "generate_test_workflow", "generate_deploy_workflow",
     "generate_complete_workflow", "generate_reusable_workflow"}
PipelineComposers ==
    {"generate_pipeline", "generate_build_stage", "generate_test_stage",
     "generate_deploy_stage"}

SeveralCommandLines ==
    {EmptyMap, [matrix |-> TRUE], [parameters |-> TRUE], [kubernetes |-> TRUE],
     [kubernetes |-> TRUE, k8s_method |-> "argocd"], [languages |-> <<"go", "python">>]}
SeveralValues == {EmptyMap, [container_image |-> "custom/image:2"]}

\* the caller composes two documents, one after the other, from the same objects
Several(first, second, in) ==
    LET mid == InputsAfter(first, in) IN
    [prog |-> "several", first |-> first, second |-> second, inputs |-> in,
     docs |-> <<Call(first, in), Call(second, mid)>>,
     after |-> InputsAfter(second, mid)]

ComposeSeveralWorkflows ==
    /\ run.prog = "none"
    /\ \E first, second \in AllWorkflowComposers :
       \E flags \in {f \in SeveralCommandLines : "parameters" \notin DOMAIN f} :
       \E values \in SeveralValues :
          LET args == gha_parse_arguments(flags, EmptyMap).args
          IN  run' = Several(first, second,
                             Inputs(args, values, GhaConfigs(args, EmptyMap, <<>>)))
    /\ UNCHANGED <<env, settings, custom, template, devcontainer, edits, cicd_settings,
                   wizard, helper, cicd_scripts>>

ComposeSeveralStages ==
    /\ run.prog = "none"
    /\ \E first, second \in PipelineComposers :
       \E flags \in {f \in SeveralCommandLines : "matrix" \notin DOMAIN f} :
          LET args == ji_parse_arguments(flags, EmptyMap).args
          IN  run' = Several(first, second,
                             Inputs(args, EmptyMap, JiConfigs(args, EmptyMap, <<>>)))
    /\ UNCHANGED <<env, settings, custom, template, devcontainer, edits, cicd_settings,
                   wizard, helper, cicd_scripts>>

NextCompose ==
    \/ ComposeWorkflow
    \/ ComposeStage
    \/ ComposeSeveralWorkflows
    \/ ComposeSeveralStages
    \/ NextCommand

SpecCompose == Init /\ [][NextCompose]_vars

(***************************************************************************)
(* C9  The scaffold command and its targets.                               *)
(***************************************************************************)
\* the targets the help of the command names: "cicd | gha | jenkins | k8s"
Advertised == {"cicd", "gha", "jenkins", "k8s"}

\* C9: scaffold prints "Unknown scaffold target" and invokes no generator
\* if and only if the target is not one the help text names; for each
\* target it names, exactly one generator is invoked and nothing is printed.
C9_UnknownIffNotAdvertised ==
    run.prog = "scaffold" =>
        LET target == run.flags.target
            unknown == /\ run.doc.stdout = <<"Unknown scaffold target.">>
                       /\ run.doc.invoked = {}
        IN  /\ unknown <=> target \notin Advertised
            /\ target \in Advertised =>
                  Cardinality(run.doc.invoked) = 1 /\ run.doc.stdout = <<>>

(***************************************************************************)
(* C10  A missing key means disabled.                                      *)
(***************************************************************************)
\* the record with every known key of its categories, the missing ones false
Completed(config) ==
    [cat \in DOMAIN config |->
        IF cat \in Categories
        THEN [key \in DOMAIN config[cat] \cup Indexed[cat] |-> Get(config[cat], key)]
        ELSE config[cat]]

\* a record that lacks nothing but tool or language keys
OnlyKeysMissing(config) ==
    /\ DOMAIN Indexed \subseteq DOMAIN config
    /\ Indexed["versions"] \subseteq DOMAIN config["versions"]

\* C10: every consumer of a record in which a tool or language key is
\* missing from its category completes, and does what it does on the record
\* that has the key with the value false: configure.py, the GitHub Actions
\* generator, the improved Jenkins generator and the build arguments of the
\* wizard.
C10_MissingKeyMeansDisabled ==
    /\ (run.prog = "configure" /\ OnlyKeysMissing(run.configs)) =>
          /\ run.status = 0 /\ run.written
          /\ run.doc = Devcontainer(Completed(run.configs))
    /\ (run.prog = "gha" /\ run.written) =>
          run.doc = generate_workflow(run.args, run.values, Completed(run.configs)).doc
    /\ (run.prog = "ji" /\ run.written) =>
          run.doc = generate_pipeline(run.args, Completed(run.configs))
    /\ (run.prog = "init" /\ run.written) =>
          run.doc.build.args = build_args(Completed(run.configs))

(***************************************************************************)
(* C11  The document depends on the record and the parameters only.        *)
(***************************************************************************)
\* a word of a command line: an option and the value it is given
Word(flag, value) == [flag |-> flag, value |-> value]

\* the words the command lines of each generator are made of
Words ==
    [gha |-> {Word("type", "build"), Word("matrix", TRUE), Word("name", "My App"),
              Word("branches", "main, develop"), Word("custom_values", "custom.json"),
              Word("output", "out")},
     ji  |-> {Word("type", "build"), Word("type", "bogus"), Word("parameters", TRUE),
              Word("custom_values", "custom.json"), Word("scm", "svn"),
              Word("output", "out/Jenkinsfile")},
     jo  |-> {Word("name", "My App"), Word("type", "build"), Word("type", "test"),
              Word("output", "out/Jenkinsfile")}]

\* the command lines: the words in every order, a word given twice included;
\* the original generator needs two words for --name and --type
Argvs(prog) ==
    UNION {[1..n -> Words[prog]] : n \in 0..(IF prog = "jo" THEN MaxFlags + 1 ELSE MaxFlags)}

\* parser.parse_args(): the words are read from left to right, and of an
\* option given more than once the last value stays
RECURSIVE Namespace(_)
Namespace(argv) ==
    IF argv = <<>> THEN EmptyMap
    ELSE LET last == argv[Len(argv)]
         IN  (last.flag :> last.value) @@ Namespace(SubSeq(argv, 1, Len(argv) - 1))

\* the options add_argument gives choices
Choices(prog) ==
    [type |-> KnownTypes[prog], k8s_method |-> Methods]
    @@ (IF prog = "ji" THEN [scm |-> {"git", "svn", "none"}] ELSE EmptyMap)

\* parse_arguments() on a command line: argparse checks the choices of every
\* word as it reads it, also of one a later word replaces
parse_arguments(prog, argv, e) ==
    IF \E i \in 1..Len(argv) :
          /\ argv[i].flag \in DOMAIN Choices(prog)
          /\ argv[i].value \notin Choices(prog)[argv[i].flag]
    THEN [ok |-> FALSE, status |-> 2]
    ELSE CASE prog = "gha" -> gha_parse_arguments(Namespace(argv), e)
           [] prog = "ji"  -> ji_parse_arguments(Namespace(argv), e)
           [] prog = "jo"  -> jo_parse_arguments(Namespace(argv))

\* main() of a generator started on a command line
Invoke(prog, argv, e, settingsFile, customFile) ==
    IF ~parse_arguments(prog, argv, e).ok THEN Failed(prog, Namespace(argv), EmptyMap, 2)
    ELSE CASE prog = "gha" -> gha_main(Namespace(argv), e, settingsFile, customFile)
           [] prog = "ji"  -> ji_main(Namespace(argv), e, settingsFile, customFile)
           [] prog = "jo"  -> jo_main(Namespace(argv), customFile)

RunGhaArgv ==
    /\ run.prog = "none"
    /\ DOMAIN env \subseteq OwnVars("DEVOPS_OS_GHA_") /\ cicd_settings = NoFile
    /\ \E argv \in Argvs("gha") :
          run' = [argv |-> argv] @@ Invoke("gha", argv, env, settings, custom)
    /\ UNCHANGED <<env, settings, cicd_settings, custom, template, edits, devcontainer,
                   wizard, helper, cicd_scripts>>

RunJiArgv ==
    /\ run.prog = "none"
    /\ DOMAIN env \subseteq OwnVars("DEVOPS_OS_JENKINS_") /\ settings = NoFile
    /\ \E argv \in Argvs("ji") :
          run' = [argv |-> argv] @@ Invoke("ji", argv, env, cicd_settings, custom)
    /\ UNCHANGED <<env, settings, cicd_settings, custom, template, edits, devcontainer,
                   wizard, helper, cicd_scripts>>

RunJoArgv ==
    /\ run.prog = "none"
    /\ DOMAIN env \subseteq {"DEVOPS_OS_JENKINS_KUBERNETES"}
    /\ settings = NoFile /\ cicd_settings = NoFile
    /\ \E argv \in Argvs("jo") :
          run' = [argv |-> argv] @@ Invoke("jo", argv, env, settings, custom)
    /\ UNCHANGED <<env, settings, cicd_settings, custom, template, edits, devcontainer,
                   wizard, helper, cicd_scripts>>

NextArgv ==
    \/ EditCustom
    \/ RunGhaArgv
    \/ RunJiArgv
    \/ RunJoArgv
    \/ NextCommand

SpecArgv == Init /\ [][NextArgv]_vars

\* the invocation parameters the document is said to depend on; the other
\* fields of the parsed arguments (output, scm, the path of the custom-values
\* file) are not among them
Listed ==
    {"name", "type", "languages", "kubernetes", "k8s_method", "registry", "image",
     "branches", "matrix", "reusable", "parameters"}

Parameters(args) == [f \in DOMAIN args \cap Listed |-> args[f]]

\* a settings file that holds the whole effective record
RecordFile(configs) ==
    OrderedFile([cat \in Categories |-> configs[cat]], configs.order)

\* the surroundings another invocation of the run's generator is started in:
\* the environment as it is, empty, or with one variable of the generator set;
\* the settings file as it is or holding the run's record; the custom-values
\* file as it is or holding the run's values
OtherEnvs ==
    IF run.prog = "jo" THEN {env}
    ELSE LET own == OwnVars(IF run.prog = "gha" THEN "DEVOPS_OS_GHA_"
                            ELSE "DEVOPS_OS_JENKINS_")
         IN  {env, EmptyMap}
             \cup UNION {{var :> val : val \in EnvVals[var]} : var \in DOMAIN EnvVals \cap own}

OtherSettings ==
    IF run.prog = "jo" THEN {settings} ELSE {SettingsRead, RecordFile(run.configs)}

OtherCustom == {custom, File(run.values)}

\* the command lines and environments that parse to the listed parameters of
\* the run
SameParameters(argv, e) ==
    LET parsed == parse_arguments(run.prog, argv, e)
    IN  parsed.ok /\ Parameters(parsed.args) = Parameters(run.args)

\* the other invocation has the record and the custom values of the run
SameGiven(other) ==
    /\ other.values = run.values
    /\ other.configs = run.configs

\* C11: the document a generator writes is determined by the effective record,
\* the custom values and the listed invocation parameters: every other
\* invocation of the generator that has the same listed parameters, record
\* and values and writes a document writes the same document, whatever the
\* order of the words of its command line, whether a parameter comes from the
\* command line, the environment or a default, whatever its other arguments
\* (output, scm, the path of the custom-values file) and wherever its record
\* comes from.
C11_SameRecordSameDocument ==
    Wrote =>
        \A argv \in Argvs(run.prog), e \in OtherEnvs :
            SameParameters(argv, e) =>
                \A settingsFile \in OtherSettings, customFile \in OtherCustom :
                    LET other == Invoke(run.prog, argv, e, settingsFile, customFile) IN
                    (other.written /\ SameGiven(other)) => other.doc = run.doc

\* a matrix workflow named on a command line of two words; the same words in
\* the other order give the same parameters, and so does a command line that
\* leaves the matrix to the environment and the record to the settings file
\* and names another output directory
C11_Witness ==
    /\ Wrote /\ run.prog = "gha"
    /\ run.argv = <<Word("matrix", TRUE), Word("name", "My App")>>
    /\ run.doc.jobs[1].strategy /\ run.doc.name = "My App CI/CD"
    /\ LET swapped == Invoke("gha", <<run.argv[2], run.argv[1]>>, env, settings, custom)
       IN  /\ SameParameters(<<run.argv[2], run.argv[1]>>, env)
           /\ swapped.written /\ SameGiven(swapped)
    /\ \E e \in OtherEnvs :
          LET argv == <<Word("name", "My App"), Word("output", "out")>>
              other == Invoke("gha", argv, e, RecordFile(run.configs), File(run.values))
          IN  /\ e # env /\ RecordFile(run.configs) # settings
              /\ SameParameters(argv, e)
              /\ other.written /\ SameGiven(other)
              /\ other.flags # run.flags /\ other.args.output # run.args.output

(***************************************************************************)
(* C12  The settings merge is shallow per category.                        *)
(***************************************************************************)
\* C12: in every run of the GitHub Actions generator and of the improved
\* Jenkins generator, each category of the effective record is the settings
\* file's mapping for it when the file defines the category, empty or
\* incomplete as it may be, and the generator's default when it does not.
C12_ShallowPerCategory ==
    (Wrote /\ run.prog \in {"gha", "ji"}) =>
        LET defaults == DefaultConfigs IN
        \A cat \in Categories :
            run.configs[cat] = IF cat \in DOMAIN SettingsRead.data THEN SettingsRead.data[cat]
                               ELSE defaults[cat]

\* a run on a settings file whose languages mapping leaves out languages the
\* default enables, and which has no code_analysis category
C12_Witness ==
    /\ Wrote /\ run.prog = "ji"
    /\ "languages" \in DOMAIN SettingsRead.data
    /\ "python" \notin DOMAIN SettingsRead.data["languages"]
    /\ DefaultConfigs["languages"]["python"]
    /\ run.configs["languages"] = SettingsRead.data["languages"]
    /\ "code_analysis" \notin DOMAIN SettingsRead.data
    /\ run.configs["code_analysis"]["sonarqube"]

(***************************************************************************)
(* C13  The reusable wrapper.                                              *)
(***************************************************************************)
\* the trigger section is the callable interface: workflow_call alone, with
\* declared inputs and secrets
CallableInterface(doc) ==
    /\ doc.on = {"workflow_call"}
    /\ DOMAIN doc.inputs # {} /\ doc.secrets # {}

\* C13: for every workflow type, the document's trigger section is the
\* callable interface if and only if the parameter reusable is true, set by
\* --reusable, by its environment variable or by type=reusable.
C13_CallableIffReusable ==
    (Wrote /\ run.prog = "gha") =>
        (CallableInterface(run.doc) <=> run.args.reusable)

(***************************************************************************)
(* C14  Command line, then environment, then default.                      *)
(***************************************************************************)
\* the name of a flag's environment variable after the prefix
FlagVar ==
    [type |-> "TYPE", languages |-> "LANGUAGES", kubernetes |-> "KUBERNETES",
     registry |-> "REGISTRY", k8s_method |-> "K8S_METHOD",
     custom_values |-> "CUSTOM_VALUES", image |-> "IMAGE", matrix |-> "MATRIX",
     reusable |-> "REUSABLE", parameters |-> "PARAMETERS"]

Prefix ==
    [gha |-> "DEVOPS_OS_GHA_", ji |-> "DEVOPS_OS_JENKINS_", jo |-> "DEVOPS_OS_JENKINS_"]

\* the flags of each generator with their built-in defaults
BuiltIn ==
    [gha |-> [type |-> "complete", languages |-> DefaultLanguages, kubernetes |-> FALSE,
              registry |-> "ghcr.io", k8s_method |-> "kubectl", custom_values |-> "None",
              image |-> "ghcr.io/yourorg/devops-os:latest", matrix |-> FALSE,
              reusable |-> FALSE],
     ji  |-> [type |-> "complete", languages |-> DefaultLanguages, kubernetes |-> FALSE,
              registry |-> "docker.io", k8s_method |-> "kubectl", custom_values |-> "None",
              image |-> "docker.io/yourorg/devops-os:latest", parameters |-> FALSE],
     jo  |-> [languages |-> DefaultLanguages, kubernetes |-> FALSE,
              registry |-> "ghcr.io", k8s_method |-> "kubectl", custom_values |-> "None",
              parameters |-> FALSE]]

Toggles == {"kubernetes", "matrix", "reusable", "parameters"}

\* the value the stated precedence gives a flag of the run's generator
ByPrecedence(f) ==
    LET var == Prefix[run.prog] \o FlagVar[f]
    IN  IF f \in DOMAIN run.flags THEN run.flags[f]
        ELSE IF var \in DOMAIN env
        THEN (IF f \in Toggles THEN Truthy(env[var]) ELSE env[var])
        ELSE BuiltIn[run.prog][f]

Parsed == IsCiRun /\ run.args # EmptyMap

\* C14: for every generator and each of its flags, the effective value is
\* the command-line value when the flag is given, otherwise the value of the
\* environment variable under the generator's prefix when it is set,
\* otherwise the default (type=reusable and type=parameterized count as
\* giving --reusable and --parameters).
C14_FlagThenEnvThenDefault ==
    Parsed => \A f \in DOMAIN BuiltIn[run.prog] :
        run.args[f] =
            IF f \in {"reusable", "parameters"}
            THEN ByPrecedence(f) \/ run.args.type \in {"reusable", "parameterized"}
            ELSE ByPrecedence(f)

(***************************************************************************)
(* C15  The unified helper: exit status, all or nothing.                   *)
(***************************************************************************)
SomeChildFailed == run.doc.github.status # 0 \/ run.doc.jenkins.status # 0

\* C15: a run of the helper ends with exit status zero when every selected
\* generator succeeded, and with a non-zero exit status when one failed; and
\* when one failed the run leaves no workflow file, no Jenkinsfile and no
\* CICD-README.md.
C15_ExitStatusAndAllOrNothing ==
    (run.prog = "cicd" /\ run.args # EmptyMap) =>
        /\ ~SomeChildFailed => run.status = 0
        /\ SomeChildFailed =>
              /\ run.status # 0
              /\ ~run.doc.github.written /\ ~run.doc.jenkins.written /\ ~run.doc.readme

(***************************************************************************)
(* C16  The target type selects the jobs and stages.                       *)
(***************************************************************************)
\* what a job or stage is for, read from its id or name; the stages of the
\* original Jenkins generator that prepare the workspace or publish the test
\* reports are none of the three
KindOf(prog, unit) ==
    LET n == IF prog = "gha" THEN unit.id ELSE unit.name IN
    CASE n \in {"build", "Build"} -> "build"
      [] n \in {"test", "Test"} -> "test"
      [] n \in {"deploy", "Deploy", "Build and Push Docker Image", "Deploy to Kubernetes",
                "Deploy to Kubernetes with Kustomize", "Deploy with ArgoCD",
                "Deploy with Flux"} -> "deploy"
      [] OTHER -> "other"

\* the kinds of the units of a document in document order, a run of units of
\* one kind counted once
RECURSIVE KindsFrom(_, _, _)
KindsFrom(prog, units, i) ==
    IF i > Len(units) THEN <<>>
    ELSE LET k == KindOf(prog, units[i])
             rest == KindsFrom(prog, units, i + 1)
         IN  IF k = "other" \/ (rest # <<>> /\ rest[1] = k) THEN rest ELSE <<k>> \o rest

Kinds(prog, doc) == KindsFrom(prog, UnitsOf(prog, doc), 1)

SelectedBy(type) ==
    CASE type = "build"  -> <<"build">>
      [] type = "test"   -> <<"test">>
      [] type = "deploy" -> <<"deploy">>
      [] type \in {"complete", "reusable", "parameterized"} -> <<"build", "test", "deploy">>

\* C16 as stated: in every generator the document of type build holds only
\* the build job or stage, of type test only the test one, of type deploy only
\* the deploy one, and of type complete, reusable or parameterized all three
\* in the order build, test, deploy.
C16_TypeSelectsUnits ==
    (Wrote /\ run.args.type \in KnownTypes[run.prog]) =>
        Kinds(run.prog, run.doc) = SelectedBy(run.args.type)

\* C16 amended: that holds of the workflow generator and of the improved
\* Jenkins generator; the deploy pipeline of the original Jenkins generator
\* holds the language Build stage before the registry publish stage.
C16_TypeSelectsUnitsButJoDeploy ==
    (Wrote /\ run.args.type \in KnownTypes[run.prog]) =>
        Kinds(run.prog, run.doc) =
            IF run.prog = "jo" /\ run.args.type = "deploy" THEN <<"build", "deploy">>
            ELSE SelectedBy(run.args.type)

C16_Witness ==
    /\ Wrote /\ run.prog = "jo" /\ run.args.type = "deploy" /\ run.args.kubernetes
    /\ Kinds(run.prog, run.doc) = <<"build", "deploy">>
    /\ Len(run.doc.stages) = 4

(***************************************************************************)
(* C17  A category absent from the record.                                 *)
(***************************************************************************)
\* the composer of the run, applied to another record
Recompose(configs) ==
    IF run.composer \in WorkflowComposers
    THEN compose_workflow(run.composer, run.args, EmptyMap, configs)
    ELSE compose_stage(run.composer, configs)

AllFalse(category) ==
    IF category = "languages" THEN [l \in LangSet |-> FALSE]
    ELSE [t \in AnalysisTools |-> FALSE]

\* C17: when the record handed to a composer lacks the category languages or
\* the category code_analysis, the composer returns, and what it returns is
\* what it returns for the same record with that category present and every
\* entry of it false.
C17_AbsentCategoryMeansAllFalse ==
    run.prog = "compose" =>
        \A category \in {"languages", "code_analysis"} :
            category \notin DOMAIN run.configs =>
                /\ run.result.raised = "none"
                /\ run.result = Recompose(run.configs @@ (category :> AllFalse(category)))

(***************************************************************************)
(* C18  The order of the blocks.                                           *)
(***************************************************************************)
\* the language a step belongs to, "none" for a step of no language
LangOfStep(step) ==
    LET ls == {l \in LangSet : \/ step.name \in LanguageStepNames[l]
                               \/ \E j \in 1..Len(step.run) :
                                     step.run[j] \in LanguageCommands[l]}
    IN  IF ls = {} THEN "none" ELSE CHOOSE l \in ls : TRUE

\* the place of a language in the enumeration python, java, javascript, go
Rank(l) == CHOOSE i \in 1..Len(Langs) : Langs[i] = l

\* in every job and stage the steps of the languages follow the enumeration
LanguageBlocksInOrder(prog, doc) ==
    \A u \in 1..Len(UnitsOf(prog, doc)) :
        LET steps == UnitsOf(prog, doc)[u].steps
            \* the ranks of the steps that belong to a language, in step order
            ranks == Flatten([i \in 1..Len(steps) |->
                        LET l == LangOfStep(steps[i])
                        IN  IF l = "none" THEN <<>> ELSE <<Rank(l)>>])
        IN  \A i \in 1..Len(ranks) - 1 : ranks[i] <= ranks[i + 1]

\* the languages named by a sequence of NAME_ENABLED entries, in its order
EntryOrder(entries) ==
    [i \in 1..Len(entries) |->
        CHOOSE l \in LangSet : entries[i][1] = Upper(l) \o "_ENABLED"]

InEnumerationOrder(order) ==
    \A i, j \in 1..Len(order) : i < j => Rank(order[i]) < Rank(order[j])

LintNames == {"Run Pylint", "Run Checkstyle", "Run ESLint"}
LintCommands ==
    {"pylint --disable=C0111 **/*.py || true", "mvn checkstyle:checkstyle || true",
     "npm run lint || true"}
UploadNames ==
    {"Upload build artifacts", "Upload test results", "Upload coverage reports",
     "archiveArtifacts", "junit"}
SkeletonNames ==
    {"Checkout code", "Set up build environment", "Set up test environment",
     "Set up deployment environment", "Parse input configurations", "checkout scm",
     "script"}

IsLint(step) ==
    \/ step.name \in LintNames
    \/ \E j \in 1..Len(step.run) : step.run[j] \in LintCommands

\* the part of a job a step belongs to: 1 build or test steps, 2 analysis,
\* 3 artifact upload, 4 deploy, 0 the skeleton around them; lint tells where
\* the lint step of a language is counted
Phase(prog, unit, step, lint) ==
    CASE IsLint(step) -> lint
      [] step.name = "SonarQube Analysis" -> 2
      [] step.name \in UploadNames \/ (prog = "jo" /\ unit.name = "Publish Results") -> 3
      [] LangOfStep(step) # "none" -> 1
      [] KindOf(prog, unit) = "deploy"
           /\ (step.name \notin SkeletonNames \/ (prog = "ji" /\ step.name = "script")) -> 4
      [] OTHER -> 0

PhasesInOrder(prog, doc, lint) ==
    \A u \in 1..Len(UnitsOf(prog, doc)) :
        LET unit == UnitsOf(prog, doc)[u]
            \* the phases of the steps outside the skeleton, in step order
            phases == Flatten([i \in 1..Len(unit.steps) |->
                         LET ph == Phase(prog, unit, unit.steps[i], lint)
                         IN  IF ph = 0 THEN <<>> ELSE <<ph>>])
        IN  \A i \in 1..Len(phases) - 1 : phases[i] <= phases[i + 1]

HasLanguageEntries == run.prog = "ji" /\ run.doc.parameters.present

\* C18 as stated: in every job and stage the language blocks follow the order
\* python, java, javascript, go; the language entries of the parameters and
\* environment blocks of the improved Jenkins generator follow it too; and
\* within a job the build or test steps come first, then the analysis steps,
\* then the artifact upload, then the deploy steps.
C18_FixedOrder ==
    Wrote =>
        /\ LanguageBlocksInOrder(run.prog, run.doc)
        /\ run.prog = "ji" =>
              /\ InEnumerationOrder(EntryOrder(run.doc.environment.languages))
              /\ run.doc.parameters.present =>
                    InEnumerationOrder(EntryOrder(run.doc.parameters.languages))
        /\ PhasesInOrder(run.prog, run.doc, 2)

\* the order of the keys of the languages mapping a run composes from: that
\* of the settings file when it has the category, else the enumeration
KeyOrderInEffect ==
    IF "languages" \in DOMAIN SettingsRead.data THEN SettingsRead.order ELSE Langs

\* C18 amended: the language blocks follow the enumeration in every job and
\* stage; the language entries of the parameters and environment blocks
\* follow the order of the keys of the languages mapping, which is the order
\* of the settings file when the file has the category; and within a job the
\* lint step of a language follows the test steps of that language, ahead of
\* the next language, the SonarQube step follows the build steps, the
\* artifact upload follows them and the deploy steps come last.
C18_BlocksFixedEntriesByKeyOrder ==
    Wrote =>
        /\ LanguageBlocksInOrder(run.prog, run.doc)
        /\ run.prog = "ji" =>
              /\ EntryOrder(run.doc.environment.languages) = KeyOrderInEffect
              /\ run.doc.parameters.present =>
                    EntryOrder(run.doc.parameters.languages) = KeyOrderInEffect
        /\ PhasesInOrder(run.prog, run.doc, 1)

\* a pipeline whose entries read GO, PYTHON while its blocks read python, go
C18_Witness ==
    /\ Wrote /\ HasLanguageEntries
    /\ EntryOrder(run.doc.parameters.languages) = <<"go", "python">>
    /\ \E u \in 1..Len(run.doc.stages) :
          \E i, j \in 1..Len(run.doc.stages[u].steps) :
              /\ i < j
              /\ LangOfStep(run.doc.stages[u].steps[i]) = "python"
              /\ LangOfStep(run.doc.stages[u].steps[j]) = "go"

(***************************************************************************)
(* C19  What gates the analysis steps.                                     *)
(***************************************************************************)
\* how each tool's step reads in a document, and the languages it analyses
AnalysisStep ==
    [pylint     |-> {"Run Pylint", "pylint --disable=C0111 **/*.py || true"},
     checkstyle |-> {"Run Checkstyle", "mvn checkstyle:checkstyle || true"},
     eslint     |-> {"Run ESLint", "npm run lint || true"},
     sonarqube  |-> {"SonarQube Analysis"}]

Analysed ==
    [pylint |-> {"python"}, checkstyle |-> {"java"}, eslint |-> {"javascript"},
     sonarqube |-> LangSet]

HasAnalysisStep(prog, doc, tool) ==
    LET steps == StepsOf(prog, doc) IN
    \/ \E i \in 1..Len(steps) : steps[i].name \in AnalysisStep[tool]
    \/ \E i \in 1..Len(steps) : \E j \in 1..Len(steps[i].run) :
          steps[i].run[j] \in AnalysisStep[tool]

\* the tool flag and a language flag of the record of the run
ToolAndLanguage(tool) ==
    /\ run.prog # "jo"
    /\ Analysis(run.configs, tool)
    /\ \E l \in Analysed[tool] : Get(run.configs.languages, l)

\* C19 as stated: an analysis step (Pylint, Checkstyle, ESLint, SonarQube) is
\* in a generated document only if its code_analysis flag is true and a
\* language it analyses is enabled.
C19_LanguageAndTool ==
    Wrote =>
        \A tool \in AnalysisTools :
            HasAnalysisStep(run.prog, run.doc, tool) => ToolAndLanguage(tool)

\* the documents that hold language test steps
HoldsTests ==
    \/ run.prog = "gha" /\ run.args.type \in {"test", "complete"}
    \/ run.prog = "ji" /\ run.args.type \in {"test", "complete", "parameterized"}

\* C19 amended: the lint step of Pylint, Checkstyle or ESLint is in a document
\* exactly when the document holds test steps, the tool's flag is true and its
\* language is enabled; the SonarQube step is in a document exactly when the
\* document is the build workflow and the sonarqube flag is true, whatever
\* the languages are.
C19_LintByLanguageSonarByFlag ==
    Wrote =>
        /\ \A tool \in AnalysisTools \ {"sonarqube"} :
              HasAnalysisStep(run.prog, run.doc, tool) <=> (HoldsTests /\ ToolAndLanguage(tool))
        /\ HasAnalysisStep(run.prog, run.doc, "sonarqube")
              <=> (run.prog = "gha" /\ run.args.type = "build"
                   /\ Analysis(run.configs, "sonarqube"))

\* a build workflow with the SonarQube step and no language enabled
C19_Witness ==
    /\ Wrote /\ run.prog = "gha"
    /\ HasAnalysisStep(run.prog, run.doc, "sonarqube")
    /\ \A l \in LangSet : ~Get(run.configs.languages, l)

(***************************************************************************)
(* C20  The registry publish step.                                         *)
(***************************************************************************)
\* the step that builds the image and pushes it, whatever the registry
HasPublishStep(prog, doc) ==
    \/ LET steps == StepsOf(prog, doc)
       IN  \E i \in 1..Len(steps) : steps[i].name = "Build and Push Docker Image"
    \/ \E u \in 1..Len(UnitsOf(prog, doc)) :
          prog = "jo" /\ UnitsOf(prog, doc)[u].name = "Build and Push Docker Image"
    \/ "customImage.push()" \in LinesOf(prog, doc)

\* the publish step pushes to the given registry: the workflow and the
\* original Jenkins pipeline name it in the docker push command, the improved
\* Jenkins pipeline pushes to REGISTRY_URL, set in its environment block
PublishesTo(prog, doc, registry) ==
    CASE prog = "gha" ->
           ("docker push " \o registry
              \o "/${{ github.repository_owner }}/${{ github.event.repository.name }}:latest")
             \in LinesOf(prog, doc)
      [] prog = "jo" ->
           ("docker push " \o registry \o "/$ORGANIZATION/$REPOSITORY:latest")
             \in LinesOf(prog, doc)
      [] prog = "ji" ->
           /\ "docker.withRegistry('https://' + REGISTRY_URL, 'registry-credentials') {"
                 \in LinesOf(prog, doc)
           /\ "customImage.push()" \in LinesOf(prog, doc)
           /\ \E i \in 1..Len(doc.environment.first) :
                 doc.environment.first[i] = <<"REGISTRY_URL", registry>>

\* C20 as stated: for every type other than build the document holds the
\* registry publish step, with the registry URL of the invocation; for type
\* build it holds none.
C20_PublishUnlessBuild ==
    (Wrote /\ run.args.type \in KnownTypes[run.prog]) =>
        IF run.args.type = "build" THEN ~HasPublishStep(run.prog, run.doc)
        ELSE PublishesTo(run.prog, run.doc, run.args.registry)

\* C20 amended: the document of type deploy, complete, reusable or
\* parameterized holds the registry publish step, with the registry URL of the
\* invocation; the document of type build or test holds none.
C20_PublishWhenDeploying ==
    (Wrote /\ run.args.type \in KnownTypes[run.prog]) =>
        IF run.args.type \in {"build", "test"} THEN ~HasPublishStep(run.prog, run.doc)
        ELSE /\ HasPublishStep(run.prog, run.doc)
             /\ PublishesTo(run.prog, run.doc, run.args.registry)

C20_Witness ==
    /\ Wrote /\ run.prog = "jo" /\ run.args.type = "complete"
    /\ "registry" \in DOMAIN run.flags
    /\ PublishesTo(run.prog, run.doc, "registry.example.com")

(***************************************************************************)
(* C21  A Kubernetes method with no branch.                                *)
(***************************************************************************)
\* a run asked for a Kubernetes deploy by a method none of the branches
\* names, with a known type and files that load
UnmatchedMethod ==
    /\ IsCiRun /\ run.args # EmptyMap
    /\ run.args.type \in KnownTypes[run.prog]
    /\ run.args.kubernetes /\ run.args.k8s_method \notin Methods
    /\ SettingsRead.state # "malformed"
    /\ (run.args.custom_values = "None" \/ custom.state # "malformed")

\* the documents whose Kubernetes block selects the method when the pipeline
\* or workflow runs
DispatchAtRunTime ==
    \/ run.prog = "gha" /\ run.args.type = "reusable"
    \/ run.prog = "ji" /\ run.args.type \in {"deploy", "complete", "parameterized"}

\* C21 as stated: with kubernetes on and a method that has no branch, the
\* generator completes and the document holds no Kubernetes deployment step.
C21_UnmatchedMethodNoDeployStep ==
    UnmatchedMethod =>
        /\ run.written /\ run.status = 0
        /\ \A m \in Methods : ~HasDeployBlock(run.prog, run.doc, m)

\* C21 amended: the generator completes; the build, test, deploy and complete
\* workflows hold no Kubernetes deployment step, while the reusable workflow
\* and the deploy stage of the improved Jenkins generator hold their
\* Kubernetes block with the commands of all four known methods, none of
\* which the unmatched value selects when it runs.
C21_UnmatchedMethodNoStaticStep ==
    UnmatchedMethod =>
        /\ run.written /\ run.status = 0
        /\ IF DispatchAtRunTime
           THEN \A m \in Methods : HasDeployBlock(run.prog, run.doc, m)
           ELSE \A m \in Methods : ~HasDeployBlock(run.prog, run.doc, m)

\* a deploy workflow asked for helm: the publish step and nothing after it
C21_Witness ==
    /\ UnmatchedMethod /\ run.prog = "gha" /\ run.args.type = "deploy"
    /\ run.args.k8s_method = "helm"
    /\ HasPublishStep(run.prog, run.doc)
    /\ Len(run.doc.jobs[1].steps) = 3

(***************************************************************************)
(* C22  The wizard writes only after the review is accepted.               *)
(***************************************************************************)
\* C22: a run of init writes the settings file only when the user accepted
\* the review, and then the file holds the record just collected and nothing
\* of what it held before; when the user declines, the run ends with exit
\* status 1 and leaves the settings file and devcontainer.json as they were;
\* the rest of an accepted run does not touch the settings file again.
C22_PersistAfterConfirmation ==
    [][/\ (wizard.pc = "idle" /\ wizard'.pc = "prompt") =>
             /\ settings'.state = "ok"
             /\ settings'.data = InitConfig(wizard'.selected_options)
             /\ devcontainer' = devcontainer
       /\ (run.prog = "none" /\ run'.prog = "init" /\ ~run'.flags.proceed) =>
             /\ run'.status = 1
             /\ settings' = settings
             /\ devcontainer' = devcontainer
       /\ (wizard.pc = "prompt" /\ wizard'.pc = "idle") =>
             /\ run'.prog = "init" /\ run'.flags.proceed
             /\ settings' = settings]_vars

\* a declined run beside a settings file that holds another record
C22_Witness ==
    /\ run.prog = "init" /\ ~run.flags.proceed /\ run.status = 1
    /\ settings.state = "ok" /\ settings.data # InitConfig(run.args)
    /\ devcontainer.state = "ok"

(***************************************************************************)
(* C23  Composition leaves its inputs alone.                               *)
(***************************************************************************)
\* C23: after two composer calls on the same record, custom values and
\* parameters, the three are what they were before the first call, and each
\* of the two documents is the document the composer returns when it is
\* called alone on them.
C23_InputsUnchanged ==
    run.prog = "several" =>
        /\ run.after = run.inputs
        /\ run.docs[1] = Call(run.first, run.inputs)
        /\ run.docs[2] = Call(run.second, run.inputs)

\* a test workflow composed first, then a complete workflow, on custom values
\* that hold no container_image: both composers ask the mapping for the key
\* with a default, the second document has the default, and the mapping is
\* still empty
C23_Witness ==
    /\ run.prog = "several"
    /\ run.first = "generate_test_workflow" /\ run.second = "generate_complete_workflow"
    /\ run.inputs.values = EmptyMap
    /\ \E i \in 1..Len(Operations(run.second, run.inputs)) :
          LET op == Operations(run.second, run.inputs)[i]
          IN  op.on = <<"values">> /\ op.kind = "get" /\ op.key = "container_image"
    /\ run.docs[2].jobs[1].image = run.inputs.args.image
    /\ \E i \in 1..Len(run.docs[2].jobs[2].steps) :
          run.docs[2].jobs[2].steps[i].name = "Run Pylint"

(***************************************************************************)
(* C24  Language defaults of the original Jenkins generator.               *)
(***************************************************************************)
\* the booleanParam each language has in the parameters block
JoParamName ==
    [python |-> "PYTHON_ENABLED", java |-> "JAVA_ENABLED", javascript |-> "JS_ENABLED",
     go |-> "GO_ENABLED"]

\* C24: in every pipeline of the original Jenkins generator the default that
\* the Configure Environment stage holds for a language is true exactly when
\* the language is an element of the --languages list, and, when the
\* parameters block is written, exactly when the block holds the language's
\* booleanParam.
C24_DefaultsAgreeWithList ==
    (Wrote /\ run.prog = "jo") =>
        \A l \in LangSet :
            /\ run.doc.defaults.languages[l] <=> InList(l, run.args.languages)
            /\ run.doc.parameters.present =>
                  (run.doc.defaults.languages[l]
                     <=> InList(JoParamName[l], run.doc.parameters.names))

(***************************************************************************)
(* C25  configure.py on the record init wrote.                             *)
(***************************************************************************)
\* the settings file holds a record the wizard writes, as the wizard wrote it
WrittenByInit ==
    /\ settings.state = "ok"
    /\ \E sel \in Selections : settings.data = InitConfig(sel)

\* C25: a run of configure.py on a settings file that init wrote, whatever
\* was selected, completes and writes devcontainer.json.
C25_InitThenConfigure ==
    (run.prog = "configure" /\ WrittenByInit) =>
        /\ run.written /\ run.status = 0
        /\ devcontainer = File(run.doc)

(***************************************************************************)
(* C26  The --languages list and the languages of the settings file.       *)
(***************************************************************************)
SettingsDefineLanguages ==
    SettingsRead.state = "ok" /\ "languages" \in DOMAIN SettingsRead.data

\* the run that was made, with another value given to --languages
WithLanguages(list) ==
    LET flags == [languages |-> list] @@ run.flags IN
    IF run.prog = "gha" THEN gha_main(flags, env, settings, custom)
    ELSE ji_main(flags, env, cicd_settings, custom)

\* C26: in the GitHub Actions and improved Jenkins generators, when the
\* settings file does not define languages, each of python, java, javascript
\* and go is enabled exactly when it is an element of the --languages list;
\* when the settings file defines languages, the run writes the same document
\* whatever the --languages value is.
C26_ListOnlyWithoutFileLanguages ==
    (Wrote /\ run.prog \in {"gha", "ji"}) =>
        IF SettingsDefineLanguages
        THEN \A list \in LangLists :
                LET other == WithLanguages(list) IN
                other.written /\ other.doc = run.doc
        ELSE /\ DOMAIN run.configs.languages = LangSet
             /\ \A l \in LangSet :
                    run.configs.languages[l] <=> InList(l, run.args.languages)

\* java is named on the command line, the settings file defines languages
\* without enabling java, and the document has nothing for java
C26_Witness ==
    /\ Wrote /\ run.prog = "gha" /\ run.args.type = "build"
    /\ "languages" \in DOMAIN run.flags /\ InList("java", run.flags.languages)
    /\ SettingsDefineLanguages /\ ~Get(SettingsRead.data.languages, "java")
    /\ ~HasLanguageBlock(run.prog, run.doc, "java")

(***************************************************************************)
(* C27  The container image of the generated document.                     *)
(***************************************************************************)
\* every container or agent image the document refers to
ImagesOf(prog, doc) ==
    IF prog = "gha" THEN {doc.jobs[i].image : i \in 1..Len(doc.jobs)}
    ELSE {doc.image}

\* C27: in each of the three CI generators, every image reference of the
\* written document is the container_image of the custom values when they
\* define one; otherwise it is the --image value, or the built-in default
\* image in the original Jenkins generator, which has no such flag.
C27_ImageFromCustomValues ==
    Wrote =>
        ImagesOf(run.prog, run.doc) =
            {IF "container_image" \in DOMAIN run.values THEN run.values.container_image
             ELSE IF run.prog = "jo" THEN "ghcr.io/yourorg/devops-os:latest"
             ELSE run.args.image}

(***************************************************************************)
(* C28  The unified helper: the order of its steps.                        *)
(***************************************************************************)
\* the place of a step among the steps main performed, 0 when not performed
PlaceOf(step, events) ==
    IF InList(step, events)
    THEN CHOOSE i \in 1..Len(events) : events[i] = step
    ELSE 0

\* C28: the helper runs the GitHub Actions generator, when selected, to its
\* end before it starts the Jenkins generator; it runs the Jenkins generator,
\* when selected, also after the GitHub Actions generator failed; and it
\* writes CICD-README.md exactly when every selected generator succeeded, as
\* its last step.
C28_HelperSequencing ==
    (run.prog = "cicd" /\ run.args # EmptyMap) =>
        LET events == run.doc.events
            ran(child) == run.doc[child].prog # "none"
        IN
        /\ ran("github") <=> run.args.github
        /\ ran("jenkins") <=> run.args.jenkins
        /\ ran("github") <=> InList("github", events)
        /\ ran("jenkins") <=> InList("jenkins", events)
        /\ (ran("github") /\ ran("jenkins")) =>
               PlaceOf("github", events) < PlaceOf("jenkins", events)
        /\ run.doc.readme <=> (run.doc.github.status = 0 /\ run.doc.jenkins.status = 0)
        /\ run.doc.readme <=> InList("readme", events)
        /\ run.doc.readme => PlaceOf("readme", events) = Len(events)

\* the GitHub Actions generator failed, the Jenkins generator was run after
\* it, and no README was written
C28_Witness ==
    /\ run.prog = "cicd" /\ run.args # EmptyMap
    /\ run.args.github /\ run.doc.github.status # 0
    /\ run.doc.jenkins.prog = "ji"
    /\ run.doc.events = <<"github", "jenkins">>
    /\ ~run.doc.readme

(***************************************************************************)
(* C29  The INSTALL_* build arguments init writes.                         *)
(***************************************************************************)
\* the option-to-argument table of each category of the wizard
InstallMaps ==
    [languages |-> lang_map, cicd |-> cicd_map, kubernetes |-> k8s_map,
     build_tools |-> build_map, code_analysis |-> analysis_map,
     devops_tools |-> devops_map]

InstallArgs ==
    UNION {{InstallMaps[cat][opt] : opt \in DOMAIN InstallMaps[cat]} :
              cat \in DOMAIN InstallMaps}

\* an option that maps to the argument was ticked
SelectedFor(arg, selected_options) ==
    \E cat \in DOMAIN InstallMaps : \E opt \in DOMAIN InstallMaps[cat] :
        InstallMaps[cat][opt] = arg /\ opt \in selected_options[cat]

\* C29: in the build arguments init writes to devcontainer.json every
\* INSTALL_* argument is "true" exactly when an option that maps to it was
\* selected, and "false" otherwise; INSTALL_JENKINS is "true" when jenkins was
\* selected under cicd or under devops_tools.
C29_InstallArgsFollowSelections ==
    (run.prog = "init" /\ run.written) =>
        LET args == run.doc.build.args IN
        /\ InstallArgs \subseteq DOMAIN args
        /\ \A arg \in InstallArgs :
              args[arg] = Str(SelectedFor(arg, run.args))

(***************************************************************************)
(* C30  No repeated extension, no repeated port.                           *)
(***************************************************************************)
EachAtMostOnce(list) ==
    \A i, j \in 1..Len(list) : list[i] = list[j] => i = j

\* C30: the devcontainer.json configure.py writes lists each VS Code
\* extension identifier at most once and each forwarded port at most once.
C30_NoRepeatedExtensionOrPort ==
    (run.prog = "configure" /\ run.written) =>
        /\ EachAtMostOnce(run.doc.extensions)
        /\ EachAtMostOnce(run.doc.forwardPorts)

====
